---- MODULE Spec2Model ----
(***************************************************************************)
(* State-machine model of showrec.record_stream (src/showrec.py), the      *)
(* plain-HTTP stream recorder with retry, backoff and append-on-resume.    *)
(*                                                                         *)
(* Time is counted in half seconds so that the jitter factors 0.5, 1.0 and *)
(* 1.5 of random.uniform(0.5, 1.5) give whole numbers: every variable or   *)
(* operator whose name ends in 2 holds twice the value in seconds.         *)
(* The clock is start-relative (start_time = 0) and saturates at ClockCap, *)
(* which is above every deadline, so every comparison the code makes       *)
(* between elapsed time and duration_seconds is exact.                     *)
(*                                                                         *)
(* f.write(chunk) either appends the whole chunk and returns, or raises    *)
(* OSError having appended nothing.  KeyboardInterrupt is asynchronous and *)
(* can be delivered between any two statements.                            *)
(***************************************************************************)
EXTENDS Integers, Sequences, FiniteSets, TLC

\* ---- bounds of the model ------------------------------------------------
MaxDuration == 2
MaxRetriesBound == 2
MaxBytes == 2
MaxChunkLen == 2
MaxInitialLen == 1
MaxSegs == 2
MaxAttempts == 6
\* the scheduler: recordings accepted, calendar checks, completions of the
\* status study
MaxSched == 2
MaxChecks == 2
MaxCompletions == 22

\* ---- program constants ---------------------------------------------------
MaxDelay == 60
GracePeriod == 5
StatusLimit == 20
TitleLimit == 50
CheckSleep == 3600
RetrySleep == 300

ClockCap == 2 * MaxDuration + 1
RetryDelays == {1, 40}
\* Arguments of the backoff study: a recording far longer than all its waits.
LongDurations == {86400}
BackoffDelays == {1, 5, 40, 60, 100}
Jitters2 == {1, 2, 3}

VARIABLES
  duration_seconds,      \* argument
  max_retries,           \* argument
  retry_delay,           \* argument
  pc,                    \* position of the control thread
  now2,                  \* 2 * (time.time() - start_time), saturating
  file_exists,           \* local file_exists
  initial_bytes,         \* local initial_bytes
  total_bytes_written,   \* local total_bytes_written
  retry_count,           \* local retry_count
  current_retry_delay,   \* local current_retry_delay
  sleep_time2,           \* 2 * sleep_time of the wait in progress, else 0
  chunk,                 \* the chunk the for loop is processing
  disk_exists,           \* output_file exists on disk
  disk,                  \* content of output_file on disk
  fopen,                 \* the handle f is open
  outcome,               \* the dict returned to the caller
  outcomes,              \* number of dicts returned to the caller
  attempts,              \* history: requests.get calls started
  disconnects,           \* history: early disconnects that led to a retry
  segs,                  \* history: bytes written through each of the first
                         \* MaxSegs opens of the file
  opens,                 \* history: opens of the file, counted up to MaxSegs + 1
  nextByte,              \* the source's next fresh byte
  connected,             \* history: a connection has been established
  interrupted,           \* history: a KeyboardInterrupt was delivered
  streak,                \* history: failures since the last established
                         \* connection (errors and early disconnects)
  lost,                  \* history: bytes received whose f.write raised or
                         \* was never reached
  appended,              \* history: bytes passed to an f.write that returned
  exc,                   \* the exception being handled at line 295, else "none"
  \* ---- showrec_hls.record_stream ----
  method_arg,            \* argument method
  method,                \* local method (reassigned when 'auto')
  has_m4a,               \* output_file contains '.m4a'
  streamlink_ok,         \* 'streamlink --version' exits 0 within 5 s
  ffmpeg_ok,             \* 'ffmpeg -version' exits 0 within 5 s
  hpc,                   \* position of the control thread
  out_before,            \* history: output_file when record_stream was called
  out_file,              \* output_file on disk
  tmp_file,              \* temp_file of fix_file_format on disk
  tool,                  \* history: the backend function that was called
  started,               \* history: capture processes started by Popen
  child,                 \* state of the capture process
  signals,               \* history: signals sent to the capture process
  success,               \* local success
  fix_success,           \* local fix_success ("unset" before line 515)
  h_outcome,             \* the dict returned to the caller
  h_outcomes,            \* number of dicts returned to the caller
  grace,                 \* seconds spent in process.wait(timeout=5)
  fix_input,             \* history: output_file when fix_file_format was
                         \* called ("none" before)
  h_interrupted,         \* history: a KeyboardInterrupt was delivered
  \* ---- schedule_recordings.CalendarRecordingScheduler ----
  dry_run,               \* argument of run_scheduler
  continuous,            \* argument of run_scheduler
  upload_enabled,        \* self.upload_folder and self.drive_uploader
  backup_path,           \* self.backup_path is set
  calendar,              \* the events of the calendar, ordered by start time
  clock,                 \* wall clock in whole hours, saturating at Horizon
  mpc,                   \* position of the main thread
  check_count,           \* local check_count of run_scheduler
  recording_events,      \* events of this check not yet passed to
                         \* schedule_recording
  m_now,                 \* local now of schedule_recording
  m_wake,                \* earliest hour at which the main thread's sleep
                         \* ends
  status_lock,           \* holder of self.status_lock
  status,                \* local status of the holder in _update_status
  status_file,           \* content of the status file
  queued_recordings,     \* keys of self.queued_recordings
  active_recordings,     \* keys of self.active_recordings
  completed_recordings,  \* self.completed_recordings
  threads                \* one entry per accepted recording: its waiter
                         \* thread and its recording thread

http == <<duration_seconds, max_retries, retry_delay, pc, now2, file_exists,
          initial_bytes, total_bytes_written, retry_count,
          current_retry_delay, sleep_time2, chunk, disk_exists, disk, fopen,
          outcome, outcomes, attempts, disconnects, segs, opens, nextByte,
          connected, interrupted, streak, lost, appended, exc>>

hls == <<method_arg, method, has_m4a, streamlink_ok, ffmpeg_ok, hpc,
         out_before, out_file, tmp_file, tool, started, child, signals,
         success, fix_success, h_outcome, h_outcomes, grace, fix_input,
         h_interrupted>>

sched == <<dry_run, continuous, upload_enabled, backup_path, calendar, clock,
           mpc, check_count, recording_events, m_now, m_wake, status_lock,
           status, status_file, queued_recordings, active_recordings,
           completed_recordings, threads>>

vars == <<http, hls, sched>>

args == <<duration_seconds, max_retries, retry_delay>>

Min(a, b) == IF a <= b THEN a ELSE b

Range(q) == {q[i] : i \in 1..Len(q)}

\* Pre-existing bytes are numbered below zero, bytes of the source from 1.
InitialContent(n) == [i \in 1..n |-> 0 - i]

FreshChunk(first, n) == [i \in 1..n |-> first + i - 1]

NoOutcome == [success |-> FALSE, error |-> "pending", bytes |-> 0, line |-> 0]

\* The dict built by the return statement at the given line of record_stream.
Result(ok, err, bytes, line) ==
  [success |-> ok, error |-> err, bytes |-> bytes, line |-> line]

\* ---- the conditions and computations of the code ------------------------

\* Variant of RemainingExhausted: gives up half a second before the deadline.
RemainingExhaustedEarly(e2) == 2 * duration_seconds - e2 <= 1

\* Variant of RemainingExhausted: strict comparison, connects at the deadline.
RemainingExhaustedStrict(e2) == 2 * duration_seconds - e2 < 0

\* line 177: remaining_duration <= 0, with remaining = duration - elapsed
RemainingExhausted(e2) == 2 * duration_seconds - e2 <= 0

\* Variant of DurationReached: strict comparison.
DurationReachedStrict(e2) == e2 > 2 * duration_seconds

\* lines 208, 317: elapsed >= duration_seconds
DurationReached(e2) == e2 >= 2 * duration_seconds

\* Variant of EndedEarly: an end exactly at the deadline counts as early.
EndedEarlyInclusive(e2) == e2 <= 2 * duration_seconds

\* line 232: elapsed_time < duration_seconds
EndedEarly(e2) == e2 < 2 * duration_seconds

\* Variant of RetriesExceeded: off by one, gives up one attempt early.
RetriesExceededOffByOne(rc) == rc >= max_retries

\* lines 241, 300: retry_count > max_retries
RetriesExceeded(rc) == rc > max_retries

\* Variant of OpenMode: every open truncates.
OpenModeTruncates(fe) == "wb"

\* line 195: mode = 'ab' if file_exists else 'wb'
OpenMode(fe) == IF fe THEN "ab" ELSE "wb"

\* Variant of SleepTime2: the wait is taken from the delay after doubling.
SleepTime2PostDoubling(d, j2) == Min(d * 2, MaxDelay) * j2

\* lines 255-256, 331-332: sleep_time = current_retry_delay * jitter
SleepTime2(d, j2) == d * j2

\* Variant of NextDelay: doubling without the cap.
NextDelayUnclamped(d) == d * 2

\* lines 262, 338: min(current_retry_delay * 2, 60)
NextDelay(d) == Min(d * 2, MaxDelay)

\* Variant of ExistsAfterError: the flag is never refreshed after an error.
ExistsAfterErrorStale(fe, total, initial) == fe

\* lines 341-342: if total_bytes_written > initial_bytes: file_exists = True
ExistsAfterError(fe, total, initial) == IF total > initial THEN TRUE ELSE fe

\* time.time() after a further dt half seconds
Advance(t2, dt) == Min(t2 + dt, ClockCap)

\* Nobody holds self.status_lock.
Free == <<"free", 0>>

\* No CalendarRecordingScheduler is constructed.
SchedIdle ==
  /\ dry_run = FALSE
  /\ continuous = FALSE
  /\ upload_enabled = FALSE
  /\ backup_path = FALSE
  /\ calendar = <<>>
  /\ clock = 0
  /\ mpc = "idle"
  /\ check_count = 0
  /\ recording_events = <<>>
  /\ m_now = 0
  /\ m_wake = 0
  /\ status_lock = Free
  /\ status = <<>>
  /\ status_file = <<>>
  /\ queued_recordings = {}
  /\ active_recordings = {}
  /\ completed_recordings = <<>>
  /\ threads = <<>>

\* The dict a caller of showrec_hls.record_stream has before it returns.
NoHlsOutcome ==
  [success |-> FALSE, error |-> "pending", file |-> FALSE, size |-> "zero"]

\* showrec_hls.record_stream is not called.
HlsIdle ==
  /\ method_arg = "auto"
  /\ method = "auto"
  /\ has_m4a = TRUE
  /\ streamlink_ok = FALSE
  /\ ffmpeg_ok = FALSE
  /\ hpc = "idle"
  /\ out_before = "absent"
  /\ out_file = "absent"
  /\ tmp_file = "absent"
  /\ tool = "none"
  /\ started = 0
  /\ child = "none"
  /\ signals = <<>>
  /\ success = FALSE
  /\ fix_success = "unset"
  /\ h_outcome = NoHlsOutcome
  /\ h_outcomes = 0
  /\ grace = 0
  /\ fix_input = "none"
  /\ h_interrupted = FALSE

\* lines 155-162: the locals of showrec.record_stream before the first
\* assignment, and the history variables.
Locals ==
  /\ now2 = 0
  /\ file_exists = FALSE
  /\ initial_bytes = 0
  /\ total_bytes_written = 0
  /\ retry_count = 0
  /\ current_retry_delay = 0
  /\ sleep_time2 = 0
  /\ chunk = <<>>
  /\ fopen = FALSE
  /\ outcome = NoOutcome
  /\ outcomes = 0
  /\ attempts = 0
  /\ disconnects = 0
  /\ segs = <<>>
  /\ opens = 0
  /\ nextByte = 1
  /\ connected = FALSE
  /\ interrupted = FALSE
  /\ streak = 0
  /\ lost = {}
  /\ appended = 0
  /\ exc = "none"

\* The state of the process and of the disk when showrec.record_stream is
\* called.
InitState ==
  /\ pc = "start"
  /\ disk_exists \in BOOLEAN
  /\ \E n \in 0..MaxInitialLen :
        disk = IF disk_exists THEN InitialContent(n) ELSE <<>>
  /\ Locals
  /\ HlsIdle
  /\ SchedIdle

\* showrec.record_stream is not called.
HttpIdle ==
  /\ duration_seconds = 0
  /\ max_retries = 0
  /\ retry_delay = 1
  /\ pc = "idle"
  /\ disk_exists = FALSE
  /\ disk = <<>>
  /\ Locals

Init ==
  /\ duration_seconds \in 0..MaxDuration
  /\ max_retries \in 0..MaxRetriesBound
  /\ retry_delay \in RetryDelays
  /\ InitState

\* Variant of Return: the handle is left as it is.
ReturnLeavesOpen(ok, err, line) ==
  /\ pc' = "done"
  /\ fopen' = fopen
  /\ outcome' = Result(ok, err, total_bytes_written, line)
  /\ outcomes' = outcomes + 1

\* A return statement: the with block (if entered) closes f first.
Return(ok, err, line) ==
  /\ pc' = "done"
  /\ fopen' = FALSE
  /\ outcome' = Result(ok, err, total_bytes_written, line)
  /\ outcomes' = outcomes + 1

\* lines 137-162: directory creation, existing-file probe, initialisation
Start ==
  /\ pc = "start"
  /\ file_exists' = disk_exists
  /\ initial_bytes' = IF disk_exists THEN Len(disk) ELSE 0
  /\ total_bytes_written' = initial_bytes'
  /\ retry_count' = 0
  /\ current_retry_delay' = retry_delay
  /\ pc' = "top"
  /\ UNCHANGED <<args, hls, sched,
                 now2, sleep_time2, chunk, disk_exists, disk, fopen,
                 outcome, outcomes, attempts, disconnects, segs, nextByte,
                 connected, interrupted, opens,
                 streak, lost, appended, exc>>

\* line 138 (or 144) raising OSError before the try block is entered
StartFails ==
  /\ pc = "start"
  /\ pc' = "raised"
  /\ UNCHANGED <<args, hls, sched,
                 now2, file_exists, initial_bytes, total_bytes_written,
                 retry_count, current_retry_delay, sleep_time2, chunk,
                 disk_exists, disk, fopen, outcome, outcomes, attempts,
                 disconnects, segs, nextByte,
                 connected, interrupted, opens,
                 streak, lost, appended, exc>>

\* lines 164-180 then 359-375: the deadline has passed at the loop top
LoopTopDone ==
  /\ pc = "top"
  /\ RemainingExhausted(now2)
  /\ Return(TRUE, "None", 369)
  /\ UNCHANGED <<args, hls, sched,
                 now2, file_exists, initial_bytes, total_bytes_written,
                 retry_count, current_retry_delay, sleep_time2, chunk,
                 disk_exists, disk, attempts, disconnects, segs, nextByte,
                 connected, interrupted, opens,
                 streak, lost, appended, exc>>

\* lines 164-186: the deadline has not passed, requests.get is called
LoopTopConnect ==
  /\ pc = "top"
  /\ ~RemainingExhausted(now2)
  /\ attempts' = attempts + 1
  /\ pc' = "connect"
  /\ UNCHANGED <<args, hls, sched,
                 now2, file_exists, initial_bytes, total_bytes_written,
                 retry_count, current_retry_delay, sleep_time2, chunk,
                 disk_exists, disk, fopen, outcome, outcomes, disconnects,
                 segs, nextByte,
                 connected, interrupted, opens,
                 streak, lost, appended, exc>>

\* Variant of ConnectOK: the retry budget and the delay are not reset.
ConnectOKNoReset ==
  /\ pc = "connect"
  /\ connected' = TRUE
  /\ streak' = 0
  /\ pc' = "open"
  /\ UNCHANGED <<args, hls, sched,
                 now2, file_exists, initial_bytes, total_bytes_written,
                 retry_count, current_retry_delay,
                 sleep_time2, chunk, disk_exists, disk, fopen, outcome,
                 outcomes, attempts, disconnects, segs, nextByte,
                 interrupted, opens,
                 lost, appended, exc>>

\* lines 186-192: the connection succeeds with a 2xx status
ConnectOK ==
  /\ pc = "connect"
  /\ retry_count' = 0
  /\ current_retry_delay' = retry_delay
  /\ connected' = TRUE
  /\ streak' = 0
  /\ pc' = "open"
  /\ UNCHANGED <<args, hls, sched,
                 now2, file_exists, initial_bytes, total_bytes_written,
                 sleep_time2, chunk, disk_exists, disk, fopen, outcome,
                 outcomes, attempts, disconnects, segs, nextByte,
                 interrupted, opens,
                 lost, appended, exc>>

\* The exceptions of the class (RequestException, OSError) the code can meet.
ErrorKinds == {"request", "status", "open", "read", "write"}

\* An exception of the class (RequestException, OSError) leaves the try
\* block: the with block (if entered) closes f, control enters line 295.
RaiseIOError ==
  /\ pc' = "handler"
  /\ fopen' = FALSE
  /\ streak' = streak + 1

\* line 186: requests.get raises a RequestException (refused, timeout, ...)
ConnectFail ==
  /\ pc = "connect"
  /\ RaiseIOError
  /\ exc' = "request"
  /\ UNCHANGED <<args, hls, sched,
                 now2, file_exists, initial_bytes, total_bytes_written,
                 retry_count, current_retry_delay, sleep_time2, chunk,
                 disk_exists, disk, outcome, outcomes, attempts, disconnects,
                 segs, nextByte,
                 connected, interrupted, opens,
                 lost, appended>>

\* line 187: raise_for_status raises HTTPError for a non-2xx response
BadStatus ==
  /\ pc = "connect"
  /\ RaiseIOError
  /\ exc' = "status"
  /\ UNCHANGED <<args, hls, sched,
                 now2, file_exists, initial_bytes, total_bytes_written,
                 retry_count, current_retry_delay, sleep_time2, chunk,
                 disk_exists, disk, outcome, outcomes, attempts, disconnects,
                 segs, nextByte, connected, interrupted, opens, lost,
                 appended>>

\* lines 194-197: open(output_file, mode)
OpenFile ==
  /\ pc = "open"
  /\ disk' = IF OpenMode(file_exists) = "wb" THEN <<>> ELSE disk
  /\ disk_exists' = TRUE
  /\ fopen' = TRUE
  /\ opens' = Min(opens + 1, MaxSegs + 1)
  /\ segs' = IF opens < MaxSegs THEN Append(segs, <<>>) ELSE segs
  /\ pc' = "read"
  /\ UNCHANGED <<args, hls, sched,
                 now2, file_exists, initial_bytes, total_bytes_written,
                 retry_count, current_retry_delay, sleep_time2, chunk,
                 outcome, outcomes, attempts, disconnects, nextByte,
                 connected, interrupted,
                 streak, lost, appended, exc>>

\* line 196: open raises OSError
OpenFail ==
  /\ pc = "open"
  /\ RaiseIOError
  /\ exc' = "open"
  /\ UNCHANGED <<args, hls, sched,
                 now2, file_exists, initial_bytes, total_bytes_written,
                 retry_count, current_retry_delay, sleep_time2, chunk,
                 disk_exists, disk, outcome, outcomes, attempts, disconnects,
                 segs, nextByte,
                 connected, interrupted, opens,
                 lost, appended>>

\* lines 199-200: iter_content yields the next chunk (empty: keep-alive)
ReadChunk ==
  /\ pc = "read"
  /\ \E n \in 0..MaxChunkLen :
       /\ nextByte + n - 1 <= MaxBytes
       /\ chunk' = FreshChunk(nextByte, n)
       /\ nextByte' = nextByte + n
       /\ pc' = IF n > 0 THEN "write" ELSE "read"
  /\ UNCHANGED <<args, hls, sched,
                 now2, file_exists, initial_bytes, total_bytes_written,
                 retry_count, current_retry_delay, sleep_time2, disk_exists,
                 disk, fopen, outcome, outcomes, attempts, disconnects, segs,
                 connected, interrupted, opens,
                 streak, lost, appended, exc>>

\* line 199 exhausted, line 196 with block exits: the stream has ended
StreamEnd ==
  /\ pc = "read"
  /\ fopen' = FALSE
  /\ pc' = "disc"
  /\ UNCHANGED <<args, hls, sched,
                 now2, file_exists, initial_bytes, total_bytes_written,
                 retry_count, current_retry_delay, sleep_time2, chunk,
                 disk_exists, disk, outcome, outcomes, attempts, disconnects,
                 segs, nextByte,
                 connected, interrupted, opens,
                 streak, lost, appended, exc>>

\* line 199: iter_content raises a RequestException (connection reset,
\* read timeout, broken chunked encoding)
StreamError ==
  /\ pc = "read"
  /\ RaiseIOError
  /\ exc' = "read"
  /\ UNCHANGED <<args, hls, sched,
                 now2, file_exists, initial_bytes, total_bytes_written,
                 retry_count, current_retry_delay, sleep_time2, chunk,
                 disk_exists, disk, outcome, outcomes, attempts, disconnects,
                 segs, nextByte,
                 connected, interrupted, opens,
                 lost, appended>>

\* line 201: f.write(chunk)
WriteChunk ==
  /\ pc = "write"
  /\ disk' = disk \o chunk
  /\ appended' = appended + Len(chunk)
  /\ segs' = IF opens <= MaxSegs
               THEN [segs EXCEPT ![Len(segs)] = @ \o chunk]
               ELSE segs
  /\ pc' = "count"
  /\ UNCHANGED <<args, hls, sched,
                 now2, file_exists, initial_bytes, total_bytes_written,
                 retry_count, current_retry_delay, sleep_time2, chunk,
                 disk_exists, fopen, outcome, outcomes, attempts, disconnects,
                 nextByte,
                 connected, interrupted, opens,
                 streak, lost, exc>>

\* Variant of WriteFail: a write error is treated as an unexpected exception.
WriteFailUnexpected ==
  /\ pc = "write"
  /\ Return(FALSE, "Unexpected", 351)
  /\ exc' = "write"
  /\ lost' = lost \cup Range(chunk)
  /\ UNCHANGED <<args, hls, sched,
                 now2, file_exists, initial_bytes, total_bytes_written,
                 retry_count, current_retry_delay, sleep_time2, chunk,
                 disk_exists, disk, attempts, disconnects, segs, nextByte,
                 connected, interrupted, opens, streak, appended>>

\* line 201: f.write raises OSError
WriteFail ==
  /\ pc = "write"
  /\ RaiseIOError
  /\ exc' = "write"
  /\ lost' = lost \cup Range(chunk)
  /\ UNCHANGED <<args, hls, sched,
                 now2, file_exists, initial_bytes, total_bytes_written,
                 retry_count, current_retry_delay, sleep_time2, chunk,
                 disk_exists, disk, outcome, outcomes, attempts, disconnects,
                 segs, nextByte,
                 connected, interrupted, opens,
                 appended>>

\* line 202: total_bytes_written += len(chunk)
CountChunk ==
  /\ pc = "count"
  /\ total_bytes_written' = total_bytes_written + Len(chunk)
  /\ pc' = "check"
  /\ UNCHANGED <<args, hls, sched,
                 now2, file_exists, initial_bytes, retry_count,
                 current_retry_delay, sleep_time2, chunk, disk_exists, disk,
                 fopen, outcome, outcomes, attempts, disconnects, segs,
                 nextByte,
                 connected, interrupted, opens,
                 streak, lost, appended, exc>>

\* lines 204-227: the deadline check after each written chunk
CheckDuration ==
  /\ pc = "check"
  /\ IF DurationReached(now2)
       THEN Return(TRUE, "None", 213)
       ELSE /\ pc' = "read"
            /\ UNCHANGED <<fopen, outcome, outcomes>>
  /\ UNCHANGED <<args, hls, sched,
                 now2, file_exists, initial_bytes, total_bytes_written,
                 retry_count, current_retry_delay, sleep_time2, chunk,
                 disk_exists, disk, attempts, disconnects, segs, nextByte,
                 connected, interrupted, opens,
                 streak, lost, appended, exc>>

\* lines 229-258 and 267-278: the stream ended; early or at the deadline
Disconnected ==
  /\ pc = "disc"
  /\ IF EndedEarly(now2)
       THEN /\ retry_count' = retry_count + 1
            /\ streak' = streak + 1
            /\ IF RetriesExceeded(retry_count')
                 THEN /\ pc' = "done"
                      /\ fopen' = FALSE
                      /\ outcome' = Result(FALSE, "MaxRetriesExceeded",
                                           total_bytes_written, 246)
                      /\ outcomes' = outcomes + 1
                      /\ UNCHANGED <<sleep_time2, disconnects>>
                 ELSE /\ \E j2 \in Jitters2 :
                           sleep_time2' = SleepTime2(current_retry_delay, j2)
                      /\ disconnects' = disconnects + 1
                      /\ pc' = "sleep_disc"
                      /\ UNCHANGED <<fopen, outcome, outcomes>>
       ELSE /\ Return(TRUE, "None", 272)
            /\ UNCHANGED <<retry_count, sleep_time2, disconnects, streak>>
  /\ UNCHANGED <<args, hls, sched,
                 now2, file_exists, initial_bytes, total_bytes_written,
                 current_retry_delay, chunk, disk_exists, disk, attempts,
                 segs, nextByte,
                 connected, interrupted, opens,
                 lost, appended, exc>>

\* Variant of SleepDisc: line 265 (file_exists = True) is missing.
SleepDiscKeepsMode ==
  /\ pc = "sleep_disc"
  /\ \E extra \in 0..1 : now2' = Advance(now2, sleep_time2 + extra)
  /\ current_retry_delay' = NextDelay(current_retry_delay)
  /\ sleep_time2' = 0
  /\ pc' = "top"
  /\ UNCHANGED <<args, hls, sched,
                 file_exists, initial_bytes, total_bytes_written,
                 retry_count, chunk, disk_exists, disk, fopen,
                 outcome, outcomes, attempts, disconnects, segs, nextByte,
                 connected, interrupted, opens,
                 streak, lost, appended, exc>>

\* lines 259-266: the backoff wait after an early disconnect
SleepDisc ==
  /\ pc = "sleep_disc"
  /\ \E extra \in 0..1 : now2' = Advance(now2, sleep_time2 + extra)
  /\ current_retry_delay' = NextDelay(current_retry_delay)
  /\ file_exists' = TRUE
  /\ sleep_time2' = 0
  /\ pc' = "top"
  /\ UNCHANGED <<args, hls, sched,
                 initial_bytes, total_bytes_written, retry_count,
                 chunk, disk_exists, disk, fopen, outcome,
                 outcomes, attempts, disconnects, segs, nextByte,
                 connected, interrupted, opens,
                 streak, lost, appended, exc>>

\* lines 295-334: the handler of (RequestException, OSError)
Handler ==
  /\ pc = "handler"
  /\ retry_count' = retry_count + 1
  /\ IF RetriesExceeded(retry_count')
       THEN /\ pc' = "done"
            /\ outcome' = Result(FALSE, "ErrorText", total_bytes_written,
                                 307)
            /\ outcomes' = outcomes + 1
            /\ UNCHANGED sleep_time2
       ELSE IF DurationReached(now2)
         THEN /\ pc' = "done"
              /\ outcome' = Result(TRUE, "None", total_bytes_written, 322)
              /\ outcomes' = outcomes + 1
              /\ UNCHANGED sleep_time2
         ELSE /\ \E j2 \in Jitters2 :
                   sleep_time2' = SleepTime2(current_retry_delay, j2)
              /\ pc' = "sleep_err"
              /\ UNCHANGED <<outcome, outcomes>>
  /\ UNCHANGED <<args, hls, sched,
                 now2, file_exists, initial_bytes, total_bytes_written,
                 current_retry_delay, chunk, disk_exists, disk, fopen,
                 attempts, disconnects, segs, nextByte,
                 connected, interrupted, opens,
                 streak, lost, appended, exc>>

\* lines 335-342: the backoff wait after a connection or I/O error
SleepErr ==
  /\ pc = "sleep_err"
  /\ \E extra \in 0..1 : now2' = Advance(now2, sleep_time2 + extra)
  /\ current_retry_delay' = NextDelay(current_retry_delay)
  /\ file_exists' = ExistsAfterError(file_exists, total_bytes_written,
                                     initial_bytes)
  /\ sleep_time2' = 0
  /\ exc' = "none"
  /\ pc' = "top"
  /\ UNCHANGED <<args, hls, sched,
                 initial_bytes, total_bytes_written, retry_count,
                 chunk, disk_exists, disk, fopen, outcome,
                 outcomes, attempts, disconnects, segs, nextByte,
                 connected, interrupted, opens,
                 streak, lost, appended>>

\* Positions inside the try block (lines 165-278).
TryBody == {"top", "connect", "open", "read", "write", "count", "check",
            "disc", "sleep_disc"}

\* Positions inside the except (RequestException, OSError) clause.
HandlerBody == {"handler", "sleep_err"}

\* lines 280-293: KeyboardInterrupt raised inside the try block
Interrupt ==
  /\ pc \in TryBody
  /\ Return(FALSE, "User interrupted", 287)
  /\ interrupted' = TRUE
  /\ lost' = IF pc = "write" THEN lost \cup Range(chunk) ELSE lost
  /\ UNCHANGED <<args, hls, sched,
                 now2, file_exists, initial_bytes, total_bytes_written,
                 retry_count, current_retry_delay, sleep_time2, chunk,
                 disk_exists, disk, attempts, disconnects, segs, nextByte,
                 connected, opens,
                 streak, appended, exc>>

\* lines 295-342: KeyboardInterrupt raised inside the except clause (for
\* instance during time.sleep at line 335) is not caught by the sibling
\* except KeyboardInterrupt clause and leaves record_stream.
InterruptInHandler ==
  /\ pc \in HandlerBody
  /\ pc' = "raised"
  /\ interrupted' = TRUE
  /\ UNCHANGED <<args, hls, sched,
                 now2, file_exists, initial_bytes, total_bytes_written,
                 retry_count, current_retry_delay, sleep_time2, chunk,
                 disk_exists, disk, fopen, outcome, outcomes, attempts,
                 disconnects, segs, nextByte,
                 connected, opens,
                 streak, lost, appended, exc>>

\* lines 344-357: an exception outside RequestException and OSError
Unexpected ==
  /\ pc \in {"connect", "read"}
  /\ Return(FALSE, "Unexpected", 351)
  /\ UNCHANGED <<args, hls, sched,
                 now2, file_exists, initial_bytes, total_bytes_written,
                 retry_count, current_retry_delay, sleep_time2, chunk,
                 disk_exists, disk, attempts, disconnects, segs, nextByte,
                 connected, interrupted, opens,
                 streak, lost, appended, exc>>

\* Time passes while the thread blocks in connect, read or write.
Tick ==
  /\ pc \in {"connect", "read", "write"}
  /\ now2 < ClockCap
  /\ now2' = Advance(now2, 1)
  /\ UNCHANGED <<args, hls, sched,
                 pc, file_exists, initial_bytes, total_bytes_written,
                 retry_count, current_retry_delay, sleep_time2, chunk,
                 disk_exists, disk, fopen, outcome, outcomes, attempts,
                 disconnects, segs, nextByte,
                 connected, interrupted, opens,
                 streak, lost, appended, exc>>

Next ==
  \/ Start
  \/ StartFails
  \/ LoopTopDone
  \/ LoopTopConnect
  \/ ConnectOK
  \/ ConnectFail
  \/ BadStatus
  \/ OpenFile
  \/ OpenFail
  \/ ReadChunk
  \/ StreamEnd
  \/ StreamError
  \/ WriteChunk
  \/ WriteFail
  \/ CountChunk
  \/ CheckDuration
  \/ Disconnected
  \/ SleepDisc
  \/ Handler
  \/ SleepErr
  \/ Interrupt
  \/ InterruptInHandler
  \/ Unexpected
  \/ Tick

Spec == Init /\ [][Next]_vars

\* The steps the interpreter and the bounded network calls take on their own:
\* every statement of record_stream eventually executes, and every connect
\* or read eventually returns data, ends, or raises.  Interrupts, unexpected
\* exceptions and the bare passage of time are not forced.
Progress ==
  \/ Start
  \/ LoopTopDone
  \/ LoopTopConnect
  \/ ConnectOK
  \/ ConnectFail
  \/ BadStatus
  \/ OpenFile
  \/ OpenFail
  \/ ReadChunk
  \/ StreamEnd
  \/ StreamError
  \/ WriteChunk
  \/ WriteFail
  \/ CountChunk
  \/ CheckDuration
  \/ Disconnected
  \/ SleepDisc
  \/ Handler
  \/ SleepErr

\* record_stream under a scheduler that keeps running it.
LiveSpec == Init /\ [][Next]_vars /\ WF_vars(Progress)

\* record_stream called for a long recording from a source that never
\* delivers data: every attempt is refused, answered with an error status,
\* or connected and then ended or broken at once.
BackoffInit ==
  /\ duration_seconds \in LongDurations
  /\ max_retries \in {1, MaxAttempts}
  /\ retry_delay \in BackoffDelays
  /\ InitState

\* lines 164-187: the next attempt, for the first MaxAttempts attempts
NextAttempt ==
  /\ attempts < MaxAttempts
  /\ LoopTopConnect

BackoffNext ==
  \/ Start
  \/ NextAttempt
  \/ ConnectOK
  \/ ConnectFail
  \/ BadStatus
  \/ OpenFile
  \/ OpenFail
  \/ StreamEnd
  \/ StreamError
  \/ Disconnected
  \/ SleepDisc
  \/ Handler
  \/ SleepErr

BackoffSpec == BackoffInit /\ [][BackoffNext]_vars

\* ---- showrec_hls.record_stream (src/showrec_hls.py) -----------------------
\* The destination is abstracted to what the caller can tell apart: absent,
\* empty, the file of an earlier run ("old"), the capture tool's output
\* ("captured") or the remuxed capture ("remuxed").  Whether a tool is
\* installed does not change during one call, so every probe of a tool in
\* that call returns the same answer.

HlsMethods == {"auto", "streamlink", "ffmpeg", "other"}

\* The dict built by a return statement of showrec_hls.record_stream.
HlsResult(ok, error, file, size) ==
  [success |-> ok, error |-> error, file |-> file, size |-> size]

HlsReturn(ok, error, file, size) ==
  /\ hpc' = "h_done"
  /\ h_outcome' = HlsResult(ok, error, file, size)
  /\ h_outcomes' = h_outcomes + 1

\* line 519, 527: file_size > 0
SizeOf(f) == IF f \in {"absent", "empty"} THEN "zero" ELSE "nonzero"

HlsInit ==
  /\ HttpIdle
  /\ SchedIdle
  /\ method_arg \in HlsMethods
  /\ method = method_arg
  /\ has_m4a \in BOOLEAN
  /\ streamlink_ok \in BOOLEAN
  /\ ffmpeg_ok \in BOOLEAN
  /\ hpc = "h_start"
  /\ out_before \in {"absent", "old"}
  /\ out_file = out_before
  /\ tmp_file = "absent"
  /\ tool = "none"
  /\ started = 0
  /\ child = "none"
  /\ signals = <<>>
  /\ success = FALSE
  /\ fix_success = "unset"
  /\ h_outcome = NoHlsOutcome
  /\ h_outcomes = 0
  /\ grace = 0
  /\ fix_input = "none"
  /\ h_interrupted = FALSE

\* line 438: mkdir raises OSError
HlsStartFails ==
  /\ hpc = "h_start"
  /\ hpc' = "h_raised"
  /\ UNCHANGED <<http, sched,
                 method_arg, method, has_m4a, streamlink_ok, ffmpeg_ok,
                 out_before, out_file, tmp_file, tool, started, child,
                 signals, success, fix_success, h_outcome, h_outcomes,
                 grace, fix_input, h_interrupted>>

\* Variant of SelectMethod: ffmpeg is preferred to streamlink.
SelectMethodPrefersFfmpeg ==
  /\ hpc = "h_start"
  /\ IF method = "auto" /\ ~streamlink_ok /\ ~ffmpeg_ok
       THEN /\ HlsReturn(FALSE, "NoTool", TRUE, "zero")
            /\ UNCHANGED method
       ELSE /\ method' = IF method # "auto" THEN method
                         ELSE IF ffmpeg_ok THEN "ffmpeg" ELSE "streamlink"
            /\ hpc' = "h_probe"
            /\ UNCHANGED <<h_outcome, h_outcomes>>
  /\ UNCHANGED <<http, sched, method_arg, has_m4a, streamlink_ok, ffmpeg_ok,
                 out_before, out_file, tmp_file, tool, started, child,
                 signals, success, fix_success,
                 grace, fix_input, h_interrupted>>

\* lines 438-468: directory creation and the choice of the backend
SelectMethod ==
  /\ hpc = "h_start"
  /\ IF method = "auto" /\ ~streamlink_ok /\ ~ffmpeg_ok
       THEN /\ HlsReturn(FALSE, "NoTool", TRUE, "zero")
            /\ UNCHANGED method
       ELSE /\ method' = IF method # "auto" THEN method
                         ELSE IF streamlink_ok THEN "streamlink" ELSE "ffmpeg"
            /\ hpc' = "h_probe"
            /\ UNCHANGED <<h_outcome, h_outcomes>>
  /\ UNCHANGED <<http, sched, method_arg, has_m4a, streamlink_ok, ffmpeg_ok,
                 out_before, out_file, tmp_file, tool, started, child,
                 signals, success, fix_success,
                 grace, fix_input, h_interrupted>>

\* Variant of ToolFound: the probe is satisfied by either tool.
ToolFoundAny == streamlink_ok \/ ffmpeg_ok

\* line 472 / 486: the probe of the chosen tool
ToolFound ==
  \/ method = "streamlink" /\ streamlink_ok
  \/ method = "ffmpeg" /\ ffmpeg_ok

\* lines 471-483, 485-497: the chosen tool is not installed
ProbeFails ==
  /\ hpc = "h_probe"
  /\ method \in {"streamlink", "ffmpeg"}
  /\ ~ToolFound
  /\ HlsReturn(FALSE, "ToolNotFound", TRUE, "zero")
  /\ UNCHANGED <<http, sched,
                 method_arg, method, has_m4a, streamlink_ok, ffmpeg_ok,
                 out_before, out_file, tmp_file, tool, started, child,
                 signals, success, fix_success,
                 grace, fix_input, h_interrupted>>

\* lines 499-509: the method is none of 'auto', 'streamlink', 'ffmpeg'
UnknownMethod ==
  /\ hpc = "h_probe"
  /\ method \notin {"streamlink", "ffmpeg"}
  /\ HlsReturn(FALSE, "UnknownMethod", TRUE, "zero")
  /\ UNCHANGED <<http, sched,
                 method_arg, method, has_m4a, streamlink_ok, ffmpeg_ok,
                 out_before, out_file, tmp_file, tool, started, child,
                 signals, success, fix_success,
                 grace, fix_input, h_interrupted>>

\* lines 484, 498 with 223-245, 318-342: the backend function is called
CallBackend ==
  /\ hpc = "h_probe"
  /\ ToolFound
  /\ tool' = method
  /\ hpc' = "h_popen"
  /\ UNCHANGED <<http, sched,
                 method_arg, method, has_m4a, streamlink_ok, ffmpeg_ok,
                 out_before, out_file, tmp_file, started, child, signals,
                 success, fix_success, h_outcome, h_outcomes,
                 grace, fix_input, h_interrupted>>

\* lines 246-247, 343-344: Popen starts the capture process
PopenOK ==
  /\ hpc = "h_popen"
  /\ child' = "running"
  /\ started' = started + 1
  /\ hpc' = "h_run"
  /\ UNCHANGED <<http, sched,
                 method_arg, method, has_m4a, streamlink_ok, ffmpeg_ok,
                 out_before, out_file, tmp_file, tool, signals, success,
                 fix_success, h_outcome, h_outcomes,
                 grace, fix_input, h_interrupted>>

\* lines 246, 343 raising, caught at lines 313-316, 418-421: return False
PopenFails ==
  /\ hpc = "h_popen"
  /\ success' = FALSE
  /\ hpc' = "h_post"
  /\ UNCHANGED <<http, sched,
                 method_arg, method, has_m4a, streamlink_ok, ffmpeg_ok,
                 out_before, out_file, tmp_file, tool, started, child,
                 signals, fix_success, h_outcome, h_outcomes,
                 grace, fix_input, h_interrupted>>

\* The capture tool (--force, -y) creates or overwrites output_file and
\* writes the recording into it for as long as it runs.
ChildWrites ==
  /\ child = "running"
  /\ \E f \in {"empty", "captured"} :
       /\ f # out_file
       /\ ~(f = "empty" /\ out_file = "captured")
       /\ out_file' = f
  /\ UNCHANGED <<http, sched,
                 method_arg, method, has_m4a, streamlink_ok, ffmpeg_ok,
                 hpc, out_before, tmp_file, tool, started, child, signals,
                 success, fix_success, h_outcome, h_outcomes,
                 grace, fix_input, h_interrupted>>

\* lines 277-300, 372-405: the process ends; success = (return_code == 0)
CaptureEnds ==
  /\ hpc = "h_run"
  /\ \E code \in {"exit0", "exit1"} :
       /\ child' = code
       /\ success' = (code = "exit0")
  /\ hpc' = "h_post"
  /\ UNCHANGED <<http, sched,
                 method_arg, method, has_m4a, streamlink_ok, ffmpeg_ok,
                 out_before, out_file, tmp_file, tool, started, signals,
                 fix_success, h_outcome, h_outcomes,
                 grace, fix_input, h_interrupted>>

\* lines 313-316, 418-421: an exception while monitoring the process; the
\* process is left running
CaptureRaises ==
  /\ hpc = "h_run"
  /\ success' = FALSE
  /\ hpc' = "h_post"
  /\ UNCHANGED <<http, sched,
                 method_arg, method, has_m4a, streamlink_ok, ffmpeg_ok,
                 out_before, out_file, tmp_file, tool, started, child,
                 signals, fix_success, h_outcome, h_outcomes,
                 grace, fix_input, h_interrupted>>

\* Variant of HlsInterrupt: the process is killed at once.
HlsInterruptKills ==
  /\ hpc = "h_run"
  /\ signals' = Append(signals, "kill")
  /\ hpc' = "h_term"
  /\ h_interrupted' = TRUE
  /\ UNCHANGED <<http, sched,
                 method_arg, method, has_m4a, streamlink_ok, ffmpeg_ok,
                 out_before, out_file, tmp_file, tool, started, child,
                 success, fix_success, h_outcome, h_outcomes, grace,
                 fix_input>>

\* lines 302-305, 407-410: KeyboardInterrupt while the process runs
HlsInterrupt ==
  /\ hpc = "h_run"
  /\ signals' = Append(signals, "terminate")
  /\ hpc' = "h_term"
  /\ h_interrupted' = TRUE
  /\ UNCHANGED <<http, sched,
                 method_arg, method, has_m4a, streamlink_ok, ffmpeg_ok,
                 out_before, out_file, tmp_file, tool, started, child,
                 success, fix_success, h_outcome, h_outcomes,
                 grace, fix_input>>

\* lines 306-307: a second of process.wait(timeout=5) passes
GraceTick ==
  /\ hpc = "h_term"
  /\ grace < GracePeriod
  /\ grace' = grace + 1
  /\ UNCHANGED <<http, sched,
                 method_arg, method, has_m4a, streamlink_ok, ffmpeg_ok,
                 hpc, out_before, out_file, tmp_file, tool, started, child,
                 signals, success, fix_success, h_outcome, h_outcomes,
                 fix_input, h_interrupted>>

\* lines 305-308: a further KeyboardInterrupt during process.wait, raised
\* inside the except clause, leaves record_stream; the process is not killed
TermInterrupted ==
  /\ hpc = "h_term"
  /\ hpc' = "h_raised"
  /\ UNCHANGED <<http, sched,
                 method_arg, method, has_m4a, streamlink_ok, ffmpeg_ok,
                 out_before, out_file, tmp_file, tool, started, child,
                 signals, success, fix_success, h_outcome, h_outcomes,
                 grace, fix_input, h_interrupted>>

\* lines 306-307, 312: the process exits within the 5 s of wait(timeout=5)
TermExits ==
  /\ hpc = "h_term"
  /\ child' = "terminated"
  /\ success' = FALSE
  /\ hpc' = "h_post"
  /\ UNCHANGED <<http, sched,
                 method_arg, method, has_m4a, streamlink_ok, ffmpeg_ok,
                 out_before, out_file, tmp_file, tool, started, signals,
                 fix_success, h_outcome, h_outcomes,
                 grace, fix_input, h_interrupted>>

\* lines 308-312: TimeoutExpired, then process.kill()
TermTimeout ==
  /\ hpc = "h_term"
  /\ grace = GracePeriod
  /\ signals' = Append(signals, "kill")
  /\ child' = "killed"
  /\ success' = FALSE
  /\ hpc' = "h_post"
  /\ UNCHANGED <<http, sched,
                 method_arg, method, has_m4a, streamlink_ok, ffmpeg_ok,
                 out_before, out_file, tmp_file, tool, started, fix_success,
                 h_outcome, h_outcomes,
                 grace, fix_input, h_interrupted>>

\* Variant of Post: a failed capture is started once more.
PostRetries ==
  /\ hpc = "h_post"
  /\ IF success /\ out_file # "absent"
       THEN /\ hpc' = "h_fix"
            /\ fix_input' = out_file
            /\ UNCHANGED <<h_outcome, h_outcomes>>
       ELSE IF ~success /\ started = 1
         THEN /\ hpc' = "h_popen"
              /\ UNCHANGED <<fix_input, h_outcome, h_outcomes>>
         ELSE /\ UNCHANGED fix_input
              /\ HlsReturn(success,
                           IF success THEN "None" ELSE "RecordingFailed",
                           success, "zero")
  /\ UNCHANGED <<http, sched,
                 method_arg, method, has_m4a, streamlink_ok, ffmpeg_ok,
                 out_before, out_file, tmp_file, tool, started, child,
                 signals, success, fix_success, grace, h_interrupted>>

\* Variant of Post: a failed capture removes the partial file.
PostDeletesPartial ==
  /\ hpc = "h_post"
  /\ IF success /\ out_file # "absent"
       THEN /\ hpc' = "h_fix"
            /\ fix_input' = out_file
            /\ UNCHANGED <<out_file, h_outcome, h_outcomes>>
       ELSE /\ UNCHANGED fix_input
            /\ out_file' = "absent"
            /\ HlsReturn(success,
                         IF success THEN "None" ELSE "RecordingFailed",
                         success, "zero")
  /\ UNCHANGED <<http, sched,
                 method_arg, method, has_m4a, streamlink_ok, ffmpeg_ok,
                 out_before, tmp_file, tool, started, child, signals,
                 success, fix_success,
                 grace, h_interrupted>>

\* lines 511-513 and 524-530: post-process a successful capture whose file
\* exists; otherwise return the outcome with file_size = 0
Post ==
  /\ hpc = "h_post"
  /\ IF success /\ out_file # "absent"
       THEN /\ hpc' = "h_fix"
            /\ fix_input' = out_file
            /\ UNCHANGED <<out_file, h_outcome, h_outcomes>>
       ELSE /\ UNCHANGED fix_input
            /\ out_file' = out_file
            /\ HlsReturn(success,
                         IF success THEN "None" ELSE "RecordingFailed",
                         success, "zero")
  /\ UNCHANGED <<http, sched,
                 method_arg, method, has_m4a, streamlink_ok, ffmpeg_ok,
                 out_before, tmp_file, tool, started, child, signals,
                 success, fix_success,
                 grace, h_interrupted>>

\* lines 157-160: fix_file_format without ffmpeg returns False
FixSkipped ==
  /\ hpc = "h_fix"
  /\ ~ffmpeg_ok
  /\ fix_success' = "false"
  /\ hpc' = "h_size"
  /\ UNCHANGED <<http, sched,
                 method_arg, method, has_m4a, streamlink_ok, ffmpeg_ok,
                 out_before, out_file, tmp_file, tool, started, child,
                 signals, success, h_outcome, h_outcomes,
                 grace, fix_input, h_interrupted>>

\* lines 163-186: the remux run.  temp_file is output_file with '.m4a'
\* replaced; for a name without '.m4a' it is output_file itself.
FixRun ==
  /\ hpc = "h_fix"
  /\ ffmpeg_ok
  /\ \E ok \in BOOLEAN :
       /\ hpc' = IF ok THEN "h_remove" ELSE "h_cleanup"
       /\ IF has_m4a
            THEN /\ \E t \in IF ok THEN {"remuxed"} ELSE {"absent", "partial"} :
                      tmp_file' = t
                 /\ UNCHANGED out_file
            ELSE /\ \E f \in IF ok THEN {"remuxed"} ELSE {out_file, "empty"} :
                      out_file' = f
                 /\ UNCHANGED tmp_file
  /\ UNCHANGED <<http, sched,
                 method_arg, method, has_m4a, streamlink_ok, ffmpeg_ok,
                 out_before, tool, started, child, signals, success,
                 fix_success, h_outcome, h_outcomes,
                 grace, fix_input, h_interrupted>>

\* line 190: os.remove(output_file), or OSError caught at line 215
FixRemove ==
  /\ hpc = "h_remove"
  /\ \/ /\ out_file' = "absent"
        /\ hpc' = "h_rename"
     \/ /\ out_file' = out_file
        /\ hpc' = "h_cleanup"
  /\ UNCHANGED <<http, sched,
                 method_arg, method, has_m4a, streamlink_ok, ffmpeg_ok,
                 out_before, tmp_file, tool, started, child, signals,
                 success, fix_success, h_outcome, h_outcomes,
                 grace, fix_input, h_interrupted>>

\* line 191: os.rename(temp_file, output_file), or OSError caught at line
\* 215 (always, when temp_file is the output_file just removed)
FixRename ==
  /\ hpc = "h_rename"
  /\ \/ /\ has_m4a
        /\ tmp_file # "absent"
        /\ out_file' = tmp_file
        /\ tmp_file' = "absent"
        /\ fix_success' = "true"
        /\ hpc' = "h_size"
     \/ /\ hpc' = "h_cleanup"
        /\ UNCHANGED <<out_file, tmp_file, fix_success>>
  /\ UNCHANGED <<http, sched,
                 method_arg, method, has_m4a, streamlink_ok, ffmpeg_ok,
                 out_before, tool, started, child, signals, success,
                 h_outcome, h_outcomes,
                 grace, fix_input, h_interrupted>>

\* lines 198-199, 212-213, 219-220: remove temp_file if it exists, return
\* False
FixCleanup ==
  /\ hpc = "h_cleanup"
  /\ IF has_m4a
       THEN tmp_file' = "absent" /\ UNCHANGED out_file
       ELSE out_file' = "absent" /\ UNCHANGED tmp_file
  /\ fix_success' = "false"
  /\ hpc' = "h_size"
  /\ UNCHANGED <<http, sched,
                 method_arg, method, has_m4a, streamlink_ok, ffmpeg_ok,
                 out_before, tool, started, child, signals, success,
                 h_outcome, h_outcomes,
                 grace, fix_input, h_interrupted>>

\* lines 519 and 524-530: getsize (FileNotFoundError if the file is gone),
\* then the outcome of a successful capture
Size ==
  /\ hpc = "h_size"
  /\ IF out_file = "absent"
       THEN /\ hpc' = "h_raised"
            /\ UNCHANGED <<h_outcome, h_outcomes>>
       ELSE HlsReturn(TRUE, "None", TRUE, SizeOf(out_file))
  /\ UNCHANGED <<http, sched,
                 method_arg, method, has_m4a, streamlink_ok, ffmpeg_ok,
                 out_before, out_file, tmp_file, tool, started, child,
                 signals, success, fix_success,
                 grace, fix_input, h_interrupted>>

\* Positions of showrec_hls.record_stream outside the try blocks of the
\* backend functions (at "h_popen" the handler at line 305 / 410 finds
\* process unbound and raises again).
Unguarded == {"h_start", "h_probe", "h_popen", "h_post", "h_fix", "h_remove",
              "h_rename", "h_cleanup", "h_size"}

\* KeyboardInterrupt outside the try blocks leaves record_stream
HlsEscape ==
  /\ hpc \in Unguarded
  /\ hpc' = "h_raised"
  /\ h_interrupted' = TRUE
  /\ UNCHANGED <<http, sched,
                 method_arg, method, has_m4a, streamlink_ok, ffmpeg_ok,
                 out_before, out_file, tmp_file, tool, started, child,
                 signals, success, fix_success, h_outcome, h_outcomes,
                 grace, fix_input>>

HlsNext ==
  \/ HlsStartFails
  \/ SelectMethod
  \/ ProbeFails
  \/ UnknownMethod
  \/ CallBackend
  \/ PopenOK
  \/ PopenFails
  \/ ChildWrites
  \/ CaptureEnds
  \/ CaptureRaises
  \/ HlsInterrupt
  \/ GraceTick
  \/ TermInterrupted
  \/ TermExits
  \/ TermTimeout
  \/ Post
  \/ FixSkipped
  \/ FixRun
  \/ FixRemove
  \/ FixRename
  \/ FixCleanup
  \/ Size
  \/ HlsEscape

HlsSpec == HlsInit /\ [][HlsNext]_vars

\* Either recorder is called once.
RecorderSpec == (Init \/ HlsInit) /\ [][Next \/ HlsNext]_vars

\* ---- schedule_recordings.CalendarRecordingScheduler ------------------------
\* (src/schedule_recordings.py)
\*
\* The clock counts whole hours and the events of the calendar start on the
\* hour, so 'start_time <= now' is exact; the clock saturates at Horizon,
\* the last start.  time.sleep(3600) ends one hour later or
\* more, time.sleep(300) may end within the same hour.
\* Every 'with self.status_lock' block is one step taken while the lock is
\* free, except the block of _update_status, which is two steps: building
\* the snapshot (the lock is taken) and writing the file (the lock is
\* released).
\* The recorder, upload_file, os.remove and os.rename are collaborators
\* that succeed, fail or raise.  The dry run and the user interrupt of
\* run_scheduler (lines 640-644) have specifications of their own, DrySpec
\* and LoopSpec, on calendars of one event.

TickSeconds == 60 * 60
Ticks(seconds) == seconds \div TickSeconds

Main == <<"main", 0>>
Waiter(k) == <<"w", k>>
Recording(k) == <<"r", k>>
ThreadIds ==
  {Main} \cup {Waiter(k) : k \in 1..Len(threads)}
         \cup {Recording(k) : k \in 1..Len(threads)}

\* The calendars of the study: one event, or two events with titles that
\* differ in characters a file name does not keep; the events start at hour
\* 1 or 2.
Starts == {1, 2}
Events1 == [id : {"e1"}, title : {<<"a", "/">>}, start : Starts,
            hls : {FALSE}]
Events2 == [id : {"e2"}, title : {<<"a", " ">>}, start : Starts,
            hls : BOOLEAN]
Calendars ==
  {<<x>> : x \in Events1}
    \cup {<<p[1], p[2]>> : p \in {q \in Events1 \X Events2 :
                                    /\ q[1].start = 1
                                    /\ q[2].hls => q[2].start = 1}}

\* The hour of the last start.
Horizon == CHOOSE h \in Starts : \A s \in Starts : s <= h

EventOf(id) == CHOOSE e \in Range(calendar) : e.id = id

\* line 320: re.sub(r'[<>:"/\\|?*]', '_', title)
Problematic == {"<", ">", ":", "\"", "/", "\\", "|", "?", "*"}
ReplaceProblematic(t) ==
  [i \in 1..Len(t) |-> IF t[i] \in Problematic THEN "_" ELSE t[i]]

\* line 321: re.sub(r'\s+', '_', safe): each run of whitespace becomes '_'
Whitespace == {" "}
RECURSIVE CollapseWhitespace(_)
CollapseWhitespace(t) ==
  IF t = <<>> THEN <<>>
  ELSE IF Head(t) \in Whitespace
         THEN IF Len(t) > 1 /\ t[2] \in Whitespace
                THEN CollapseWhitespace(Tail(t))
                ELSE <<"_">> \o CollapseWhitespace(Tail(t))
         ELSE <<Head(t)>> \o CollapseWhitespace(Tail(t))

\* line 322: safe.strip('._')
RECURSIVE StripLeft(_)
StripLeft(t) ==
  IF t # <<>> /\ Head(t) \in {".", "_"} THEN StripLeft(Tail(t)) ELSE t
RECURSIVE StripRight(_)
StripRight(t) ==
  IF t # <<>> /\ t[Len(t)] \in {".", "_"}
    THEN StripRight(SubSeq(t, 1, Len(t) - 1))
    ELSE t

\* lines 317-323: _sanitize_filename
SanitizeFilename(title) ==
  LET safe == StripRight(StripLeft(CollapseWhitespace(
                ReplaceProblematic(title))))
  IN  SubSeq(safe, 1, Min(Len(safe), TitleLimit))

\* lines 260-271 and 393-405: the path of the recording of event e: the
\* sanitized title, the start time and the extension of the stream type
Extension(e) == IF e.hls THEN ".m4a" ELSE ".mp3"
FileName(e) == <<SanitizeFilename(e.title), e.start, Extension(e)>>

\* Variant of RecentCompleted: the first StatusLimit records are kept.
RecentCompletedOldest(s) == SubSeq(s, 1, Min(Len(s), StatusLimit))

\* line 357: self.completed_recordings[-20:]
RecentCompleted(s) ==
  SubSeq(s, IF Len(s) > StatusLimit THEN Len(s) - StatusLimit + 1 ELSE 1,
         Len(s))

\* lines 332-358: the dict status
Snapshot ==
  [active |-> active_recordings,
   queued |-> queued_recordings,
   completed |-> RecentCompleted(completed_recordings)]

\* lines 424-429: the threads of a recording just accepted
NewThreads(id) == [eid |-> id, wpc |-> "w_sleep", rpc |-> "none"]

\* line 483: the upload is attempted
Uploads(b) == b.capture = "ok" /\ upload_enabled

\* What the collaborators of _execute_recording do: the recorder and
\* upload_file return success, return failure or raise; os.remove and
\* os.rename succeed or raise.  A collaborator that is not called is
\* listed with one behaviour only.
Behaviours ==
  {b \in [capture : {"ok", "failed", "raised"},
          upload : {"ok", "failed", "raised"},
          removed : BOOLEAN, moved : BOOLEAN] :
     /\ ~Uploads(b) => b.upload = "ok"
     /\ ~(Uploads(b) /\ b.upload = "ok") => b.removed
     /\ ~(Uploads(b) /\ b.upload = "failed" /\ backup_path) => b.moved}

\* Variant of Completion: the local file is deleted whatever the upload
\* returned.
CompletionDeletes(id, b) ==
  LET raised == b.capture = "raised" \/ (Uploads(b) /\ b.upload = "raised")
      uploaded == Uploads(b) /\ b.upload = "ok"
      failed == Uploads(b) /\ b.upload = "failed"
  IN  [eid |-> id,
       captured |-> b.capture = "ok",
       success |-> b.capture = "ok" /\ ~raised,
       uploaded |-> uploaded,
       deleted |-> Uploads(b) /\ ~raised,
       backed_up |-> failed /\ backup_path /\ b.moved,
       upload_error |-> failed,
       end |-> Len(completed_recordings) + 1]

\* lines 520-538 and 552-567: the completion record of event id under the
\* behaviour b; end is the rank of its end_time.  An exception of the
\* recorder or of upload_file gives the record of lines 557-567.  captured
\* is result['success'] as the recorder returned it at line 470 (FALSE when
\* it raised); the code keeps it in the record only as 'success'.
Completion(id, b) ==
  LET raised == b.capture = "raised" \/ (Uploads(b) /\ b.upload = "raised")
      uploaded == Uploads(b) /\ b.upload = "ok"
      failed == Uploads(b) /\ b.upload = "failed"
  IN  [eid |-> id,
       captured |-> b.capture = "ok",
       success |-> b.capture = "ok" /\ ~raised,
       uploaded |-> uploaded,
       deleted |-> uploaded /\ b.removed,
       backed_up |-> failed /\ backup_path /\ b.moved,
       upload_error |-> failed,
       end |-> Len(completed_recordings) + 1]

\* The scheduler is constructed and run_scheduler is about to make its
\* first calendar check.
SchedStart ==
  /\ clock = 0
  /\ mpc = "m_check"
  /\ check_count = 0
  /\ recording_events = <<>>
  /\ m_now = 0
  /\ m_wake = 0
  /\ status_lock = Free
  /\ status = <<>>
  /\ status_file = <<>>
  /\ queued_recordings = {}
  /\ active_recordings = {}
  /\ completed_recordings = <<>>
  /\ threads = <<>>

SchedInit ==
  /\ HttpIdle
  /\ HlsIdle
  /\ dry_run = FALSE
  /\ continuous \in BOOLEAN
  /\ upload_enabled = FALSE
  /\ backup_path = FALSE
  /\ calendar \in Calendars
  /\ SchedStart

\* The hour changes.
SchedTick ==
  /\ mpc # "idle"
  /\ clock < Horizon
  /\ clock' = clock + 1
  /\ UNCHANGED <<http, hls, dry_run, continuous, upload_enabled, backup_path,
                 calendar, mpc, check_count, recording_events, m_now, m_wake,
                 status_lock, status, status_file, queued_recordings,
                 active_recordings, completed_recordings, threads>>

\* The positions at which a thread calls _update_status (lines 432, 628,
\* 643, 464, 570).
AtStatus(t) ==
  \/ t = Main /\ mpc \in {"m_qstatus", "m_status", "m_final"}
  \/ /\ t[1] = "w"
     /\ threads[t[2]].wpc = "w_status"
  \/ /\ t[1] = "r"
     /\ threads[t[2]].rpc = "r_status"

\* The position of the main thread after the event at the head of
\* recording_events is dealt with (the for loop of line 618).
AfterEvent ==
  IF Len(recording_events) > 1 THEN "m_now" ELSE "m_status"

\* lines 630-638: after the status update that ends a check
AfterCheck ==
  /\ mpc' = IF continuous THEN "m_sleep" ELSE "m_done"
  /\ m_wake' = IF continuous
                 THEN Min(clock + Ticks(CheckSleep), Horizon)
                 ELSE 0
  /\ UNCHANGED <<recording_events, m_now, threads>>

\* What the caller of _update_status does next.
Leave(t) ==
  IF t = Main
    THEN CASE mpc = "m_qstatus" ->
                /\ recording_events' = Tail(recording_events)
                /\ mpc' = AfterEvent
                /\ m_now' = 0
                /\ UNCHANGED <<m_wake, threads>>
           [] mpc = "m_final" ->
                /\ mpc' = "m_done"
                /\ UNCHANGED <<recording_events, m_now, m_wake, threads>>
           [] OTHER -> AfterCheck
    ELSE /\ threads' =
              [threads EXCEPT ![t[2]] =
                 IF t[1] = "w" THEN [@ EXCEPT !.wpc = "w_join"]
                               ELSE [@ EXCEPT !.rpc = "r_done"]]
         /\ UNCHANGED <<mpc, recording_events, m_now, m_wake>>

\* Variant of UpdBuild: the snapshot is built without waiting for the lock.
UpdBuildUnlocked(t) ==
  /\ AtStatus(t)
  /\ status_lock # t
  /\ status_lock' = t
  /\ status' = <<Snapshot>>
  /\ UNCHANGED <<http, hls, dry_run, continuous, upload_enabled, backup_path,
                 calendar, clock, mpc, check_count, recording_events, m_now,
                 m_wake, status_file, queued_recordings, active_recordings,
                 completed_recordings, threads>>

\* lines 331-358: _update_status takes the lock and builds the snapshot
UpdBuild(t) ==
  /\ AtStatus(t)
  /\ status_lock = Free
  /\ status_lock' = t
  /\ status' = <<Snapshot>>
  /\ UNCHANGED <<http, hls, dry_run, continuous, upload_enabled, backup_path,
                 calendar, clock, mpc, check_count, recording_events, m_now,
                 m_wake, status_file, queued_recordings, active_recordings,
                 completed_recordings, threads>>

\* lines 360-364: the snapshot is written and the lock is released
UpdWrite(t) ==
  /\ status_lock = t
  /\ status_file' = status
  /\ status_lock' = Free
  /\ status' = <<>>
  /\ Leave(t)
  /\ UNCHANGED <<http, hls, dry_run, continuous, upload_enabled, backup_path,
                 calendar, clock, check_count, queued_recordings,
                 active_recordings, completed_recordings>>

\* lines 594-626 and 645-652: a calendar check: the events are fetched and
\* parsed and get_status is called, or the fetch raises
MainCheck ==
  /\ mpc = "m_check"
  /\ check_count' = check_count + 1
  /\ \/ /\ status_lock = Free
        /\ recording_events' = calendar
        /\ mpc' = IF calendar = <<>> THEN "m_status" ELSE "m_now"
        /\ m_wake' = 0
     \/ /\ mpc' = IF continuous THEN "m_retry" ELSE "m_done"
        /\ m_wake' = IF continuous
                       THEN Min(clock + Ticks(RetrySleep), Horizon)
                       ELSE 0
        /\ recording_events' = <<>>
  /\ UNCHANGED <<http, hls, dry_run, continuous, upload_enabled, backup_path,
                 calendar, clock, m_now, status_lock, status, status_file,
                 queued_recordings, active_recordings, completed_recordings,
                 threads>>

\* line 377: schedule_recording reads the clock
SchedNow ==
  /\ mpc = "m_now"
  /\ m_now' = clock
  /\ mpc' = "m_dup"
  /\ UNCHANGED <<http, hls, dry_run, continuous, upload_enabled, backup_path,
                 calendar, clock, check_count, recording_events, m_wake,
                 status_lock, status, status_file, queued_recordings,
                 active_recordings, completed_recordings, threads>>

\* Variant of SchedCheck: the dry run is not tested.
SchedCheckIgnoresDryRun ==
  /\ mpc = "m_dup"
  /\ status_lock = Free
  /\ LET e == Head(recording_events)
     IN  IF \/ e.id \in queued_recordings
            \/ e.id \in active_recordings
            \/ e.start <= m_now
           THEN /\ recording_events' = Tail(recording_events)
                /\ mpc' = AfterEvent
                /\ m_now' = 0
           ELSE /\ mpc' = "m_queue"
                /\ UNCHANGED <<recording_events, m_now>>
  /\ UNCHANGED <<http, hls, dry_run, continuous, upload_enabled, backup_path,
                 calendar, clock, check_count, m_wake, status_lock,
                 status, status_file, queued_recordings, active_recordings,
                 completed_recordings, threads>>

\* lines 382-417: the event is skipped when it is queued, recording, or has
\* started by now; a dry run stops here
SchedCheck ==
  /\ mpc = "m_dup"
  /\ status_lock = Free
  /\ LET e == Head(recording_events)
     IN  IF \/ e.id \in queued_recordings
            \/ e.id \in active_recordings
            \/ e.start <= m_now
            \/ dry_run
           THEN /\ recording_events' = Tail(recording_events)
                /\ mpc' = AfterEvent
                /\ m_now' = 0
           ELSE /\ mpc' = "m_queue"
                /\ UNCHANGED <<recording_events, m_now>>
  /\ UNCHANGED <<http, hls, dry_run, continuous, upload_enabled, backup_path,
                 calendar, clock, check_count, m_wake, status_lock,
                 status, status_file, queued_recordings, active_recordings,
                 completed_recordings, threads>>

\* lines 420-429: the event is queued and its waiter thread is started, for
\* the first MaxSched recordings
SchedQueue ==
  /\ mpc = "m_queue"
  /\ status_lock = Free
  /\ Len(threads) < MaxSched
  /\ queued_recordings' =
       queued_recordings \cup {Head(recording_events).id}
  /\ threads' = Append(threads, NewThreads(Head(recording_events).id))
  /\ mpc' = "m_qstatus"
  /\ UNCHANGED <<http, hls, dry_run, continuous, upload_enabled, backup_path,
                 calendar, clock, check_count, recording_events, m_now,
                 m_wake, status_lock, status, status_file, active_recordings,
                 completed_recordings>>

\* lines 638 and 652: time.sleep returns and the loop goes round, for the
\* first MaxChecks checks
MainWake ==
  /\ mpc \in {"m_sleep", "m_retry"}
  /\ clock >= m_wake
  /\ check_count < MaxChecks
  /\ mpc' = "m_check"
  /\ UNCHANGED <<http, hls, dry_run, continuous, upload_enabled, backup_path,
                 calendar, clock, check_count, recording_events, m_now,
                 m_wake, status_lock, status, status_file, queued_recordings,
                 active_recordings, completed_recordings, threads>>

\* lines 437-448: the waiter sleeps until the start time, then removes the
\* event from the queue
WaiterDequeue(k) ==
  /\ threads[k].wpc = "w_sleep"
  /\ clock >= EventOf(threads[k].eid).start
  /\ status_lock = Free
  /\ queued_recordings' = queued_recordings \ {threads[k].eid}
  /\ threads' = [threads EXCEPT ![k].wpc = "w_activate"]
  /\ UNCHANGED <<http, hls, dry_run, continuous, upload_enabled, backup_path,
                 calendar, clock, mpc, check_count, recording_events, m_now,
                 m_wake, status_lock, status, status_file, active_recordings,
                 completed_recordings>>

\* lines 454-463: the event becomes active and its recording thread starts
WaiterActivate(k) ==
  /\ threads[k].wpc = "w_activate"
  /\ status_lock = Free
  /\ active_recordings' = active_recordings \cup {threads[k].eid}
  /\ threads' = [threads EXCEPT ![k].wpc = "w_status",
                                ![k].rpc = "r_record"]
  /\ UNCHANGED <<http, hls, dry_run, continuous, upload_enabled, backup_path,
                 calendar, clock, mpc, check_count, recording_events, m_now,
                 m_wake, status_lock, status, status_file, queued_recordings,
                 completed_recordings>>

\* lines 470-567: the recorder returns or raises, the recording is
\* uploaded and deleted or moved to the backup folder, the event leaves
\* the active recordings and its completion record is appended
ExecuteWith(k, b) ==
  /\ threads[k].rpc = "r_record"
  /\ status_lock = Free
  /\ active_recordings' = active_recordings \ {threads[k].eid}
  /\ completed_recordings' =
       Append(completed_recordings, Completion(threads[k].eid, b))
  /\ threads' = [threads EXCEPT ![k].rpc = "r_status"]
  /\ UNCHANGED <<http, hls, dry_run, continuous, upload_enabled, backup_path,
                 calendar, clock, mpc, check_count, recording_events, m_now,
                 m_wake, status_lock, status, status_file, queued_recordings>>

ExecuteRecording(k) == \E b \in Behaviours : ExecuteWith(k, b)

SchedNext ==
  \/ SchedTick
  \/ MainCheck
  \/ SchedNow
  \/ SchedCheck
  \/ SchedQueue
  \/ MainWake
  \/ \E t \in ThreadIds : UpdBuild(t)
  \/ \E t \in ThreadIds : UpdWrite(t)
  \/ \E k \in 1..Len(threads) : WaiterDequeue(k)
  \/ \E k \in 1..Len(threads) : WaiterActivate(k)
  \/ \E k \in 1..Len(threads) : ExecuteRecording(k)

SchedSpec == SchedInit /\ [][SchedNext]_vars

\* The statements of the try block of run_scheduler (lines 593-638), where
\* the main thread is while a check, schedule_recording, _update_status or
\* the sleep of one hour runs.
MainTryBody ==
  {"m_check", "m_now", "m_dup", "m_queue", "m_qstatus", "m_status", "m_sleep"}

\* lines 640-642: KeyboardInterrupt raised in the try block (at "m_check"
\* line 594 has run), while the main thread is not inside the lock block of
\* _update_status; the handler calls get_status and goes on to
\* _update_status
MainInterrupt ==
  /\ mpc \in MainTryBody
  /\ status_lock = Free
  /\ check_count' = IF mpc = "m_check" THEN check_count + 1 ELSE check_count
  /\ mpc' = "m_final"
  /\ recording_events' = <<>>
  /\ m_now' = 0
  /\ m_wake' = 0
  /\ UNCHANGED <<http, hls, dry_run, continuous, upload_enabled, backup_path,
                 calendar, clock, status_lock, status, status_file,
                 queued_recordings, active_recordings, completed_recordings,
                 threads>>

\* line 652: KeyboardInterrupt raised by time.sleep(300) inside the clause
\* 'except Exception'; the clause 'except KeyboardInterrupt' of the same try
\* statement does not apply and the exception leaves run_scheduler
MainInterruptInHandler ==
  /\ mpc = "m_retry"
  /\ mpc' = "m_raised"
  /\ m_wake' = 0
  /\ UNCHANGED <<http, hls, dry_run, continuous, upload_enabled, backup_path,
                 calendar, clock, check_count, recording_events, m_now,
                 status_lock, status, status_file, queued_recordings,
                 active_recordings, completed_recordings, threads>>

\* main, lines 722-726 and 800-804: the scheduler run on a calendar of one
\* event, with and without --dry-run.
DryInit ==
  /\ HttpIdle
  /\ HlsIdle
  /\ dry_run \in BOOLEAN
  /\ continuous \in BOOLEAN
  /\ upload_enabled = FALSE
  /\ backup_path = FALSE
  /\ calendar \in {c \in Calendars : Len(c) = 1}
  /\ SchedStart

DrySpec == DryInit /\ [][SchedNext]_vars

\* run_scheduler with the user's interrupt, delivered once at most.
LoopNext ==
  \/ SchedNext
  \/ MainInterrupt
  \/ MainInterruptInHandler

LoopSpec == DryInit /\ [][LoopNext]_vars

\* The state in which the main thread has made its only check and returned,
\* every event of the calendar c was accepted, the start times have come
\* and each waiter thread has removed its event from the queue.
Dequeued(c) ==
  /\ HttpIdle
  /\ HlsIdle
  /\ dry_run = FALSE
  /\ continuous = FALSE
  /\ calendar = c
  /\ clock = Horizon
  /\ mpc = "m_done"
  /\ check_count = 1
  /\ recording_events = <<>>
  /\ m_now = 0
  /\ m_wake = 0
  /\ status_lock = Free
  /\ status = <<>>
  /\ status_file = <<[active |-> {}, queued |-> {e.id : e \in Range(c)},
                      completed |-> <<>>]>>
  /\ queued_recordings = {}
  /\ active_recordings = {}
  /\ completed_recordings = <<>>
  /\ threads = [i \in 1..Len(c) |->
                  [eid |-> c[i].id, wpc |-> "w_activate", rpc |-> "none"]]

\* Two recordings with different files run side by side, with and without
\* upload and backup folder.
ExecInit ==
  /\ upload_enabled \in BOOLEAN
  /\ backup_path \in BOOLEAN
  /\ \E c \in Calendars :
       /\ Len(c) = 2
       /\ FileName(c[1]) # FileName(c[2])
       /\ Dequeued(c)

ExecNext ==
  \/ \E k \in 1..Len(threads) : WaiterActivate(k)
  \/ \E k \in 1..Len(threads) : ExecuteRecording(k)
  \/ \E t \in ThreadIds : UpdBuild(t)
  \/ \E t \in ThreadIds : UpdWrite(t)

ExecSpec == ExecInit /\ [][ExecNext]_vars

\* The status study: recordings that succeed, one after the other, without
\* upload.
Good == [capture |-> "ok", upload |-> "ok", removed |-> TRUE, moved |-> TRUE]

StatusInit ==
  /\ upload_enabled = FALSE
  /\ backup_path = FALSE
  /\ \E c \in Calendars :
       /\ Len(c) = 1
       /\ Dequeued(c)

\* lines 435-452: the waiter thread of a later event has removed it from
\* the queue, for the first MaxCompletions recordings (the model reuses the
\* entry of the finished recording)
RecordAgain ==
  /\ threads[1].wpc = "w_join"
  /\ threads[1].rpc = "r_done"
  /\ Len(completed_recordings) < MaxCompletions
  /\ threads' = [threads EXCEPT ![1].wpc = "w_activate", ![1].rpc = "none"]
  /\ UNCHANGED <<http, hls, dry_run, continuous, upload_enabled, backup_path,
                 calendar, clock, mpc, check_count, recording_events, m_now,
                 m_wake, status_lock, status, status_file, queued_recordings,
                 active_recordings, completed_recordings>>

StatusNext ==
  \/ WaiterActivate(1)
  \/ ExecuteWith(1, Good)
  \/ \E t \in ThreadIds : UpdBuild(t)
  \/ \E t \in ThreadIds : UpdWrite(t)
  \/ RecordAgain

StatusSpec == StatusInit /\ [][StatusNext]_vars

TypeOK ==
  /\ pc \in TryBody \cup HandlerBody \cup {"start", "done", "raised"}
  /\ now2 \in 0..ClockCap
  /\ retry_count \in Nat
  /\ outcomes \in Nat

\* ---- properties -----------------------------------------------------------

\* The bytes the destination held when record_stream was called.
Preexisting == InitialContent(initial_bytes)

\* C1: when the stream ends while elapsed < duration_seconds and the retry
\* budget is not exhausted, record_stream does not return: it counts one
\* retry and enters the backoff wait; after the wait the file is marked as
\* existing, so the next open appends, and after one early disconnect and a
\* second connection the file is the pre-existing bytes, then the first
\* segment's bytes, then the second segment's bytes.
C1_ReconnectAppends ==
  /\ [][(/\ pc = "disc"
         /\ now2 < 2 * duration_seconds
         /\ retry_count < max_retries
         /\ ~interrupted')
          => (/\ pc' = "sleep_disc"
              /\ retry_count' = retry_count + 1
              /\ outcomes' = 0
              /\ disk' = disk)]_vars
  /\ [][(pc = "sleep_disc" /\ pc' = "top") => file_exists']_vars
  /\ [][(pc = "open" /\ fopen' /\ disconnects >= 1) => disk' = disk]_vars
  /\ []((disconnects = 1 /\ opens = 2)
          => disk = Preexisting \o segs[1] \o segs[2])

C1_Witness ==
  /\ pc = "done"
  /\ outcome.success
  /\ disconnects = 1
  /\ opens = 2
  /\ segs[1] # <<>>
  /\ segs[2] # <<>>
  /\ disk = Preexisting \o segs[1] \o segs[2]

\* C2: record_stream returns success = True only when the time elapsed since
\* request start is at least duration_seconds.
C2_SuccessOnlyAtDeadline ==
  (pc = "done" /\ outcome.success) => now2 >= 2 * duration_seconds

C2_Witness ==
  /\ pc = "done"
  /\ outcome.success
  /\ outcome.line = 213
  /\ duration_seconds > 0

\* C3: while no connection attempt has succeeded, at most max_retries + 1
\* attempts are made; the failure by exhaustion is returned exactly after
\* attempt max_retries + 1, and no backoff wait follows that attempt.
C3_RetryExhaustion ==
  /\ ~connected => attempts <= max_retries + 1
  /\ (~connected /\ pc = "done" /\ outcome.line = 307)
       => (attempts = max_retries + 1 /\ ~outcome.success)
  /\ (~connected /\ pc = "sleep_err") => attempts <= max_retries

C3_Witness ==
  /\ pc = "done"
  /\ connected = FALSE
  /\ outcome.line = 307
  /\ max_retries >= 2
  /\ attempts = max_retries + 1

\* C4: whenever the file is closed once the control loop has started, in
\* particular at every return, the size of the destination on disk equals
\* total_bytes_written.
C4_SizeEqualsCounter ==
  (attempts > 0 /\ ~fopen) => Len(disk) = total_bytes_written

\* C5: the byte counter starts at the existing size; the pre-existing bytes
\* stay at the front of the file; a file that held bytes at the start is
\* always opened in append mode; the file is opened in truncating mode only
\* while it holds no byte and no byte has been counted.
C5_AppendOnResume ==
  /\ [][(pc = "start" /\ pc' = "top")
          => (/\ total_bytes_written' = Len(disk)
              /\ initial_bytes' = Len(disk))]_vars
  /\ [](pc \notin {"start", "raised"}
          => (/\ total_bytes_written >= initial_bytes
              /\ Len(disk) >= initial_bytes
              /\ SubSeq(disk, 1, initial_bytes) = Preexisting))
  /\ []((pc \notin {"start", "raised"} /\ initial_bytes > 0) => file_exists)
  /\ []((pc = "open" /\ ~file_exists)
          => (disk = <<>> /\ total_bytes_written = 0))
  /\ [][Len(disk') >= Len(disk)]_vars

C5_Witness ==
  /\ pc = "done"
  /\ initial_bytes > 0
  /\ opens >= 2
  /\ segs[2] # <<>>
  /\ Len(disk) > initial_bytes

\* C6: once a chunk has been written and counted and the elapsed time is at
\* least duration_seconds, the next step of the recorder (unless the user
\* interrupts) is the return of Success at line 213: nothing more is read
\* from the source, nothing more is written and no connection is attempted,
\* even if the source still has data; nothing happens after the return.
C6_DeadlineStopsStream ==
  /\ [][(pc = "check" /\ now2 >= 2 * duration_seconds /\ ~interrupted')
          => (/\ pc' = "done"
              /\ outcome'.success
              /\ outcome'.line = 213
              /\ disk' = disk
              /\ nextByte' = nextByte
              /\ attempts' = attempts)]_vars
  /\ [][(pc = "check" /\ pc' = "read") => now2 < 2 * duration_seconds]_vars
  /\ [][pc = "done" => pc' = "done"]_vars

C6_Witness ==
  /\ pc = "done"
  /\ outcome.line = 213
  /\ outcome.success
  /\ nextByte <= MaxBytes

\* C7: a connection or I/O error handled when the elapsed time is already
\* at least duration_seconds gives Success for every value of the retry
\* counter, including when retry_count rises above max_retries.
C7_DeadlineBeatsExhaustion ==
  (pc = "done" /\ outcome.line \in {307, 322}
     /\ now2 >= 2 * duration_seconds) => outcome.success

\* C8: elapsed time is measured from the one request start and never runs
\* backwards; a backoff wait adds at least its sleep time to it; the target
\* duration never changes; a connection attempt is started only while
\* elapsed < duration_seconds, and at the loop top with elapsed >=
\* duration_seconds the recorder returns Success instead.
C8_NoAttemptPastDeadline ==
  /\ [][attempts' # attempts
          => (attempts' = attempts + 1 /\ now2 < 2 * duration_seconds)]_vars
  /\ [][now2' >= now2]_vars
  /\ [][(pc \in {"sleep_disc", "sleep_err"} /\ pc' = "top")
          => now2' >= Min(now2 + sleep_time2, ClockCap)]_vars
  /\ [][duration_seconds' = duration_seconds]_vars
  /\ [][(pc = "top" /\ now2 >= 2 * duration_seconds /\ ~interrupted')
          => (pc' = "done" /\ outcome'.success /\ attempts' = attempts)]_vars

C8_Witness ==
  /\ pc = "done"
  /\ outcome.line = 369
  /\ attempts >= 2
  /\ duration_seconds > 0

\* C9: a KeyboardInterrupt delivered anywhere in the control loop makes
\* record_stream return a failure with error 'User interrupted'.
C9_InterruptReturnsFailure ==
  interrupted
    => (pc = "done" /\ ~outcome.success /\ outcome.error = "User interrupted")

\* C10: once the control loop has started, record_stream ends by returning
\* exactly one outcome and never by an exception reaching the caller.
C10_OneOutcomeNoEscape ==
  /\ ~(pc = "raised" /\ attempts > 0)
  /\ outcomes <= 1
  /\ pc = "done" <=> outcomes = 1

\* C11: under the fair scheduler (time advances, every connect and read
\* returns), every call of record_stream that enters the retry loop
\* eventually returns an outcome dict: success, retries exceeded, user
\* interrupted or unexpected error.
C11_ReachesOutcome == (pc = "top") ~> (pc = "done")

Sleeping == pc \in {"sleep_disc", "sleep_err"}

\* C12: with retry_delay <= 60, every backoff wait w taken from the delay d
\* satisfies 0.5*d <= w <= 1.5*d (here d <= 2w <= 3d, with 2w = sleep_time2),
\* and current_retry_delay never exceeds 60.
C12_BackoffBounds ==
  retry_delay <= MaxDelay =>
    /\ current_retry_delay <= MaxDelay
    /\ Sleeping => /\ current_retry_delay <= sleep_time2
                   /\ sleep_time2 <= 3 * current_retry_delay

\* A longest wait from the capped delay, reached by doubling from 5.
C12_Witness ==
  /\ Sleeping
  /\ retry_delay = 5
  /\ current_retry_delay = MaxDelay
  /\ sleep_time2 = 3 * MaxDelay

RECURSIVE Pow2(_)
Pow2(n) == IF n = 0 THEN 1 ELSE 2 * Pow2(n - 1)

\* The delay the k-th consecutive failure waits on, as the code computes it:
\* the reset value for k = 1, then doubled and capped after every wait.
DelayAt(k) ==
  IF k = 1 THEN retry_delay ELSE Min(retry_delay * Pow2(k - 1), MaxDelay)

\* C13 (amended): in both retry paths the wait is taken from the delay before
\* it is doubled, and the step that ends the wait sets the delay to
\* min(2 * delay, 60); hence the k-th consecutive failure since the last
\* established connection waits on retry_delay itself for k = 1 and on
\* min(retry_delay * 2^(k-1), 60) for k >= 2.
C13_WaitFromUndoubledDelay ==
  /\ [](Sleeping => /\ streak >= 1
                    /\ current_retry_delay = DelayAt(streak)
                    /\ \E j2 \in Jitters2 :
                          sleep_time2 = current_retry_delay * j2)
  /\ [][(Sleeping /\ pc' = "top")
          => /\ current_retry_delay' = Min(2 * current_retry_delay, MaxDelay)
             /\ now2' >= Advance(now2, sleep_time2)]_vars

\* The fifth consecutive failure from retry_delay = 5 waits on the cap
\* (5 * 2^4 = 80 > 60).
C13_Witness ==
  /\ Sleeping
  /\ retry_delay = 5
  /\ streak = 5
  /\ current_retry_delay = MaxDelay

\* C13 as stated: the k-th consecutive failure waits on
\* min(retry_delay * 2^(k-1), 60), for every retry_delay.
C13_WaitOnCappedPower ==
  Sleeping =>
    /\ streak >= 1
    /\ current_retry_delay = Min(retry_delay * Pow2(streak - 1), MaxDelay)

RetriesExceededLines == {246, 307}

\* C14: every successful connection resets retry_count to 0 and
\* current_retry_delay to retry_delay; so a retries-exceeded failure is
\* returned only when more than max_retries failures have happened since the
\* last successful connection, and the early-disconnect path (the only one a
\* source that always connects and then drops can take) exhausts the budget
\* only when max_retries = 0.
C14_ConnectionResetsBudget ==
  /\ [][(pc = "connect" /\ pc' = "open")
          => /\ retry_count' = 0
             /\ current_retry_delay' = retry_delay]_vars
  /\ [](pc \notin {"handler", "raised"} => retry_count = streak)
  /\ []((pc = "done" /\ outcome.line \in RetriesExceededLines)
          => streak > max_retries)
  /\ []((pc = "done" /\ outcome.line = 246) => max_retries = 0)
  /\ [][(pc = "disc" /\ max_retries >= 1)
          => ~(pc' = "done" /\ outcome'.line \in RetriesExceededLines)]_vars

\* The budget is exhausted by the failures after a connection, while more
\* attempts than that had failed overall.
C14_Witness ==
  /\ pc = "done"
  /\ outcome.line = 307
  /\ disconnects >= 1
  /\ streak = max_retries + 1
  /\ attempts > streak + 1

\* C16: a refused or timed-out request, a non-2xx status, and an OS error
\* while opening, reading or writing all enter the same handler with
\* retry_count untouched; the handler adds exactly one to retry_count, gives
\* up with a failure if the count exceeds max_retries, and otherwise (unless
\* the deadline has passed) waits current_retry_delay times the jitter,
\* doubles the delay up to 60, and only then is the next attempt made.
C16_OneErrorPath ==
  /\ [][(exc' # exc /\ exc' # "none")
          => /\ exc' \in ErrorKinds
             /\ pc' = "handler"
             /\ retry_count' = retry_count]_vars
  /\ [][(pc = "handler" /\ pc' # "raised")
          => /\ retry_count' = retry_count + 1
             /\ IF retry_count' > max_retries
                  THEN pc' = "done" /\ outcome'.line = 307
                  ELSE \/ pc' = "done" /\ outcome'.line = 322
                       \/ /\ pc' = "sleep_err"
                          /\ sleep_time2' >= current_retry_delay
                          /\ sleep_time2' <= 3 * current_retry_delay]_vars
  /\ [][(pc = "sleep_err" /\ pc' # "raised")
          => /\ pc' = "top"
             /\ attempts' = attempts
             /\ now2' >= Advance(now2, sleep_time2)
             /\ current_retry_delay' = Min(2 * current_retry_delay,
                                           MaxDelay)]_vars

\* A write error on a later attempt is counted and the recorder waits before
\* the next attempt, as it did for the earlier failure.
C16_Witness ==
  /\ pc = "sleep_err"
  /\ exc = "write"
  /\ retry_count = 1
  /\ attempts >= 2
  /\ sleep_time2 > 0

\* Every byte iter_content has yielded so far, in the order received.
Received == FreshChunk(1, nextByte - 1)

\* The bytes of the file behind the pre-existing content.
Recorded == SubSeq(disk, initial_bytes + 1, Len(disk))

\* The chunk received and not yet passed to f.write.
InFlight == IF pc = "write" THEN Range(chunk) ELSE {}

C18_ClosedAndConsistent ==
  pc \in {"done", "raised"} =>
    /\ ~fopen
    /\ attempts > 0 => Len(disk) = initial_bytes + appended

\* The run was interrupted after a chunk was written and before it was
\* counted.
C18_Witness ==
  /\ pc = "done"
  /\ outcome.line = 287
  /\ ~fopen
  /\ appended > 0
  /\ Len(disk) = initial_bytes + appended
  /\ total_bytes_written < Len(disk)

\* C15: the step by which either recorder returns a failure outcome
\* (retries exceeded, user interrupted or unexpected error in
\* showrec.record_stream; failed, killed or interrupted capture in
\* showrec_hls.record_stream) leaves the destination file as it was just
\* before that step: it is neither deleted nor truncated.
C15_FailureKeepsFile ==
  /\ [][(pc # "done" /\ pc' = "done" /\ ~outcome'.success)
          => /\ disk' = disk
             /\ disk_exists' = disk_exists]_vars
  /\ [][(hpc # "h_done" /\ hpc' = "h_done" /\ ~h_outcome'.success)
          => /\ out_file' = out_file
             /\ tmp_file' = tmp_file]_vars

\* The capture process wrote data and exited non-zero: the partial file is
\* still there after the failure outcome.
C15_Witness ==
  /\ hpc = "h_done"
  /\ ~h_outcome.success
  /\ h_outcome.error = "RecordingFailed"
  /\ child = "exit1"
  /\ out_file = "captured"

\* C19: with method 'auto', the streamlink backend is the one called
\* whenever streamlink is found; the ffmpeg backend is called only when
\* streamlink is not found and ffmpeg is; when neither is found the call
\* returns a failure, no backend is called, no process is started and the
\* output file is as it was before the call.
C19_AutoSelection ==
  method_arg = "auto" =>
    /\ tool = "ffmpeg" => (~streamlink_ok /\ ffmpeg_ok)
    /\ (streamlink_ok /\ (tool # "none" \/ hpc = "h_done"))
          => tool = "streamlink"
    /\ (~streamlink_ok /\ ffmpeg_ok /\ hpc = "h_done") => tool = "ffmpeg"
    /\ (~streamlink_ok /\ ~ffmpeg_ok)
          => /\ tool = "none"
             /\ started = 0
             /\ out_file = out_before
             /\ hpc \in {"h_start", "h_done", "h_raised"}
             /\ hpc = "h_done" => /\ ~h_outcome.success
                                  /\ h_outcome.error = "NoTool"

\* The fallback: streamlink is missing, ffmpeg captured the stream.
C19_Witness ==
  /\ method_arg = "auto"
  /\ ~streamlink_ok
  /\ ffmpeg_ok
  /\ hpc = "h_done"
  /\ tool = "ffmpeg"
  /\ started = 1
  /\ h_outcome.success

\* C20: showrec_hls.record_stream returns success = True only if the capture
\* process exited with code 0 and the destination file exists and is not
\* empty.
C20_SuccessNeedsFile ==
  (hpc = "h_done" /\ h_outcome.success)
    => /\ child = "exit0"
       /\ out_file \notin {"absent", "empty"}

\* The capture process has ended without exit code 0, or monitoring it raised.
CaptureFailed ==
  \/ child \in {"exit1", "terminated", "killed"}
  \/ hpc = "h_post" /\ ~success

\* C21: one call of showrec_hls.record_stream starts at most one capture
\* process and calls at most one backend; once the process has exited
\* non-zero, was killed, or monitoring it raised, the call returns a failure
\* outcome in its next step: no other backend is called, no second process
\* is started and no wait follows.
C21_OneCaptureNoRetry ==
  /\ [](started <= 1)
  /\ [][tool # "none" => tool' = tool]_vars
  /\ [](CaptureFailed => /\ ~success
                         /\ hpc \in {"h_post", "h_done", "h_raised"})
  /\ [][(hpc = "h_post" /\ ~success /\ hpc' \notin {"h_post", "h_raised"})
          => /\ hpc' = "h_done"
             /\ ~h_outcome'.success
             /\ h_outcome'.error = "RecordingFailed"
             /\ started' = started]_vars

\* streamlink failed while ffmpeg was installed too: ffmpeg is not tried.
C21_Witness ==
  /\ hpc = "h_done"
  /\ method_arg = "auto"
  /\ streamlink_ok
  /\ ffmpeg_ok
  /\ tool = "streamlink"
  /\ child = "exit1"
  /\ started = 1
  /\ ~h_outcome.success

\* C22: the capture process receives a signal only when the user interrupts
\* it while it runs; the first signal is terminate; kill is sent only after
\* terminate, after the full grace period of 5 s has passed without the
\* process exiting; and an interrupted capture is reported as failed.
C22_TerminateThenKill ==
  /\ [](signals \in {<<>>, <<"terminate">>, <<"terminate", "kill">>})
  /\ [][(signals = <<>> /\ signals' # <<>>)
          => /\ hpc = "h_run"
             /\ child = "running"
             /\ signals' = <<"terminate">>
             /\ hpc' = "h_term"
             /\ grace' = 0]_vars
  /\ [][(signals = <<"terminate">> /\ signals' # signals)
          => /\ hpc = "h_term"
             /\ child = "running"
             /\ grace = GracePeriod]_vars
  /\ [](child = "terminated" => signals = <<"terminate">>)
  /\ []((signals # <<>> /\ hpc \in {"h_post", "h_done"}) => ~success)
  /\ []((signals # <<>> /\ hpc = "h_done")
          => /\ ~h_outcome.success
             /\ h_outcome.error = "RecordingFailed")

\* The process ignored terminate for 5 s, was killed, and the capture is
\* reported as failed.
C22_Witness ==
  /\ hpc = "h_done"
  /\ signals = <<"terminate", "kill">>
  /\ child = "killed"
  /\ grace = GracePeriod
  /\ ~h_outcome.success

\* C23: whenever fix_file_format has returned False, for any output file
\* name, the original file is still there with the content it had when the
\* function was called, and no temporary file is left behind.
C23_FailedFixKeepsOriginal ==
  fix_success = "false" => /\ out_file = fix_input
                           /\ tmp_file = "absent"

\* C24: from the call of fix_file_format on, for a name containing '.m4a',
\* the destination path always holds the complete original or the complete
\* remuxed file, never no file, whatever step fails.
C24_AtomicReplace ==
  (has_m4a /\ fix_input # "none") => out_file \in {fix_input, "remuxed"}

\* C25: once fix_file_format has returned False after a successful capture,
\* record_stream goes on (unless the user interrupts it) to return an
\* outcome with success = True and error = None.
C25_FixFailureNotFatal ==
  (fix_success = "false" /\ ~h_interrupted)
    => /\ hpc \in {"h_size", "h_done"}
       /\ hpc = "h_done" => /\ h_outcome.success
                            /\ h_outcome.error = "None"

\* C26: _update_status is serialized: while one thread holds the status
\* lock no other thread takes it and the active, queued and completed
\* collections do not change, the snapshot held is the view of the three
\* collections, and the status file only ever receives such a snapshot,
\* from the thread that holds the lock, as it releases it.
C26_SerializedStatus ==
  /\ [](status_lock # Free => status = <<Snapshot>>)
  /\ [][status_lock # Free
         => /\ status_lock' \in {status_lock, Free}
            /\ UNCHANGED <<queued_recordings, active_recordings,
                           completed_recordings>>]_vars
  /\ [][status_file' # status_file
         => /\ status_lock # Free
            /\ status_lock' = Free
            /\ status_file' = <<Snapshot>>]_vars

\* A thread holds the lock while another thread waits for it to update the
\* status and a recording is running.
C26_Witness ==
  /\ status_lock # Free
  /\ \E t \in ThreadIds \ {status_lock} : AtStatus(t)
  /\ \E k \in 1..Len(threads) : threads[k].rpc = "r_record"

\* The completion records of a snapshot are the last StatusLimit records of
\* the list q, or all of them when there are fewer, in the order of q.
LastOf(c, q) ==
  /\ Len(c) = Min(Len(q), StatusLimit)
  /\ \A j \in 1..Len(c) : c[j] = q[Len(q) - Len(c) + j]

\* C27: every snapshot built holds the last 20 completion records at most,
\* in completion order, and every snapshot in the status file is one that
\* was built so: at most 20 records, consecutive in completion order, and
\* all the records completed so far when they were fewer than 20.
C27_RecentCompleted ==
  /\ [][(status = <<>> /\ status' # <<>>)
         => LastOf(status'[1].completed, completed_recordings)]_vars
  /\ [][status_file' # status_file => status_file' = status]_vars
  /\ [](\A i \in 1..Len(status_file) :
          LET c == status_file[i].completed
          IN  /\ Len(c) <= StatusLimit
              /\ \A j \in 1..(Len(c) - 1) : c[j + 1].end = c[j].end + 1
              /\ (c # <<>> /\ Len(c) < StatusLimit) => c[1].end = 1
              /\ c # <<>> => c[Len(c)].end <= Len(completed_recordings))

\* More than 20 recordings have completed and the status file holds the
\* last 20 of them.
C27_Witness ==
  /\ Len(completed_recordings) > StatusLimit
  /\ status_file # <<>>
  /\ Len(status_file[1].completed) = StatusLimit
  /\ status_file[1].completed[StatusLimit].end = Len(completed_recordings)
  /\ status_file[1].completed[1].end > 1

\* C28: in every completion record the local file was deleted only when
\* the upload succeeded, moved to the backup folder only when the upload
\* failed and a backup folder is configured, and neither uploaded, deleted
\* nor moved when the capture failed or no upload is configured.
C28_DeleteOnlyAfterUpload ==
  \A i \in 1..Len(completed_recordings) :
    LET r == completed_recordings[i]
    IN  /\ r.deleted => r.uploaded
        /\ r.backed_up => (r.upload_error /\ backup_path /\ ~r.uploaded)
        /\ r.uploaded => (r.success /\ upload_enabled /\ ~r.upload_error)
        /\ (~r.success \/ ~upload_enabled)
             => (~r.uploaded /\ ~r.deleted /\ ~r.backed_up)

\* One recording was uploaded and deleted, the other failed to upload and
\* was moved to the backup folder.
C28_Witness ==
  /\ \E i \in 1..Len(completed_recordings) :
       completed_recordings[i].uploaded /\ completed_recordings[i].deleted
  /\ \E i \in 1..Len(completed_recordings) :
       /\ completed_recordings[i].upload_error
       /\ completed_recordings[i].backed_up

\* C29: no event id has two recordings started, however the calendar
\* checks interleave with the waiter and recording threads.
C29_OneRecordingPerEvent ==
  \A k1, k2 \in 1..Len(threads) :
    (/\ threads[k1].eid = threads[k2].eid
     /\ threads[k1].rpc # "none"
     /\ threads[k2].rpc # "none") => k1 = k2

\* C30: the recordings of two different events that run at the same time
\* write to different files.
C30_DistinctOutputPaths ==
  \A k1, k2 \in 1..Len(threads) :
    (/\ threads[k1].eid # threads[k2].eid
     /\ threads[k1].rpc = "r_record"
     /\ threads[k2].rpc = "r_record")
      => FileName(EventOf(threads[k1].eid)) # FileName(EventOf(threads[k2].eid))

\* C31: every failure returned because the retries are exhausted, through
\* connection errors (line 307) or through early disconnects (line 246),
\* carries the same error kind, retries exceeded.
C31_SameExhaustionError ==
  (pc = "done" /\ outcome.line \in RetriesExceededLines)
    => outcome.error = "MaxRetriesExceeded"

\* C32: when the stream has ended and the elapsed time read at line 231 is
\* at or after the duration, the next step of record_stream (unless the
\* user interrupts) returns success from line 272 with retry_count left as
\* it is, no wait computed and no further connection attempt, whatever
\* max_retries is.
C32_LateEndIsSuccess ==
  [][(pc = "disc" /\ now2 >= 2 * duration_seconds /\ pc' # pc
        /\ ~interrupted')
       => /\ pc' = "done"
          /\ outcome'.success
          /\ outcome'.error = "None"
          /\ outcome'.line = 272
          /\ UNCHANGED <<retry_count, current_retry_delay, sleep_time2,
                         attempts, disconnects, streak>>]_vars

\* With max_retries = 0 and a positive duration, a stream that ended at or
\* after the deadline gave the success of line 272.
C32_Witness ==
  /\ pc = "done"
  /\ outcome.line = 272
  /\ outcome.success
  /\ max_retries = 0
  /\ duration_seconds > 0
  /\ retry_count = 0

\* The completion records appended for the event id.
RecordsOf(id) ==
  {i \in 1..Len(completed_recordings) : completed_recordings[i].eid = id}

\* C33: no event id is queued and active at the same time; an accepted event
\* only moves forward, so it is not queued once its waiter has removed it
\* from the queue, and it is neither queued nor active once its recorder
\* call is over; and an event whose recorder call is over has exactly one
\* completion record.
C33_ForwardOnly ==
  /\ queued_recordings \cap active_recordings = {}
  /\ \A k \in 1..Len(threads) :
       threads[k].wpc # "w_sleep" => threads[k].eid \notin queued_recordings
  /\ \A k \in 1..Len(threads) :
       threads[k].rpc \in {"r_status", "r_done"}
         => /\ threads[k].eid \notin queued_recordings \cup active_recordings
            /\ Cardinality(RecordsOf(threads[k].eid)) = 1

\* C34: while a thread holds the status lock, every accepted event whose
\* completion record is not yet appended (and which was accepted once) is
\* in exactly one of the queued and the active recordings of the snapshot
\* that the thread builds.
C34_VisibleUntilCompleted ==
  \A k \in 1..Len(threads) :
    (/\ status_lock # Free
     /\ threads[k].rpc \in {"none", "r_record"}
     /\ \A j \in 1..Len(threads) : threads[j].eid = threads[k].eid => j = k)
      => (threads[k].eid \in status[1].queued)
           # (threads[k].eid \in status[1].active)

\* C35: the success flag of every completion record is the success flag the
\* recorder returned, whatever upload_file, os.remove and os.rename did; and
\* the file of a successful capture that was not uploaded is not deleted.
C35_UploadKeepsSuccess ==
  \A i \in 1..Len(completed_recordings) :
    LET r == completed_recordings[i]
    IN  /\ r.success = r.captured
        /\ (r.captured /\ ~r.uploaded) => ~r.deleted

\* C36: the step by which schedule_recording returns without queuing (the
\* event is queued or recording at the test of lines 382-388, has started
\* by the now of line 377, or the run is a dry run) leaves the queued, the
\* active and the completed recordings as they are and starts no thread;
\* threads are started and events queued only by the step of lines 420-429,
\* never in a dry run; and a dry run leaves the three collections empty.
C36_SkipChangesNothing ==
  /\ [][(/\ mpc = "m_dup"
         /\ mpc' # mpc
         /\ LET e == Head(recording_events)
            IN  \/ e.id \in queued_recordings
                \/ e.id \in active_recordings
                \/ e.start <= m_now
                \/ dry_run)
          => /\ mpc' # "m_queue"
             /\ UNCHANGED <<queued_recordings, active_recordings,
                            completed_recordings, threads>>]_vars
  /\ [][(Len(threads') > Len(threads)
           \/ ~(queued_recordings' \subseteq queued_recordings))
          => (mpc = "m_queue" /\ ~dry_run)]_vars
  /\ [](dry_run => /\ threads = <<>>
                    /\ queued_recordings = {}
                    /\ active_recordings = {}
                    /\ completed_recordings = <<>>)

\* A dry run has gone through its calendar of one event, which had not
\* started, and is about to write the status.
C36_Witness ==
  /\ dry_run
  /\ Len(calendar) = 1
  /\ calendar[1].start > clock
  /\ check_count = 1
  /\ mpc = "m_status"
  /\ threads = <<>>

\* C37: for every file name fix_file_format works on, temp_file is a path
\* other than output_file (in the model: the name contains '.m4a'), so the
\* remux run does not write to the original and the cleanup after a failure
\* does not delete it.
C37_TempPathDistinct ==
  /\ [](hpc \in {"h_remove", "h_rename", "h_cleanup"} => has_m4a)
  /\ [][hpc = "h_fix" => out_file' = out_file]_vars
  /\ [][hpc = "h_cleanup" => out_file' = out_file]_vars

\* The method asked for by name cannot be used: its tool is not installed,
\* or it is not the name of a method.
ExplicitUnusable ==
  \/ method_arg = "streamlink" /\ ~streamlink_ok
  \/ method_arg = "ffmpeg" /\ ~ffmpeg_ok
  \/ method_arg \notin {"auto", "streamlink", "ffmpeg"}

\* C38: when the method named in the call cannot be used, record_stream calls
\* no backend and starts no capture process, leaves the output file as it
\* was, and returns a failure (tool not found, or unknown method), also when
\* the other tool is installed; the method used differs from the method
\* asked for only when that was 'auto'.
C38_NoFallbackForExplicit ==
  /\ ExplicitUnusable
       => /\ method = method_arg
          /\ tool = "none"
          /\ started = 0
          /\ out_file = out_before
          /\ hpc \in {"h_start", "h_probe", "h_done", "h_raised"}
          /\ hpc = "h_done"
               => /\ ~h_outcome.success
                  /\ h_outcome.error =
                       IF method_arg \in {"streamlink", "ffmpeg"}
                         THEN "ToolNotFound" ELSE "UnknownMethod"
  /\ method # method_arg => method_arg = "auto"
  /\ (tool # "none" /\ method_arg # "auto") => tool = method_arg

\* streamlink was asked for and is missing, ffmpeg is installed: the call
\* has returned the failure.
C38_Witness ==
  /\ method_arg = "streamlink"
  /\ ~streamlink_ok
  /\ ffmpeg_ok
  /\ hpc = "h_done"
  /\ h_outcome.error = "ToolNotFound"
  /\ started = 0

\* C39: without continuous, run_scheduler makes one calendar check and
\* never sleeps or retries, whether the check succeeded or raised; with
\* continuous, a check that raised is followed by the wait of five minutes
\* and the next check, and run_scheduler is left only by the step that
\* writes the final status snapshot after the user's interrupt.
C39_OneCheckOrUntilInterrupt ==
  /\ [](~continuous => /\ check_count <= 1
                        /\ mpc \notin {"m_sleep", "m_retry"}
                        /\ mpc \in {"m_done", "m_raised"}
                             => check_count = 1)
  /\ [][(continuous /\ mpc = "m_retry" /\ mpc' # mpc)
          => (mpc' = "m_check" /\ clock >= m_wake)]_vars
  /\ [][(continuous /\ mpc' # mpc /\ mpc' \in {"m_done", "m_raised"})
          => /\ mpc = "m_final"
             /\ mpc' = "m_done"
             /\ status_file' = <<Snapshot>>]_vars


====
